---- MODULE Spec2Model ----
(***************************************************************************)
(* Agent execution wrapper and orchestration strategies of                 *)
(* backend/agents/base.py (BaseAgent, AgentOrchestrator, ChainableAgent),  *)
(* as a state machine over asyncio's cooperative scheduling: one action is *)
(* the code that runs between two suspension points of the event loop.     *)
(* The status store and the research workflow of backend/api/research.py   *)
(* (research_storage, execute_research, update_research_status,            *)
(* get_research_status) run on the same event loop and the same agents.    *)
(***************************************************************************)
EXTENDS Integers, Sequences, FiniteSets, TLC

\* ---------------------------------------------------------------- bounds
MaxAgents == 3      \* agent instances that exist (and can be registered)
MaxTime   == 1      \* last value of the wall clock, in seconds
MaxTasks  == 3      \* execute() invocations of one chain run (cycles are possible)
MaxRetries == 3     \* largest max_retries an NSAIClient is constructed with

\* ------------------------------------------------------------- constants
MsPerSecond == 1000
None        == "None"      \* Python's None where a string or payload is expected
Null        == 0           \* Python's None where a dict reference is expected
NoAgent     == 0           \* Python's None where an agent reference is expected

AgentIds  == 1..MaxAgents
Reducer   == MaxAgents + 1             \* the agent handed to execute_map_reduce
Instances == 1..(MaxAgents + 1)
CallIds   == {"c1", "c2"}              \* coroutines calling into the orchestrator

\* the agents execute_research constructs, one per phase, in the order of the phases
Phases         == 1..6
PhaseAgent(k)  == Reducer + k
WorkflowAgents == {PhaseAgent(k) : k \in Phases}
PhaseOf(a)     == a - Reducer
ResearchIds    == {"r1", "r2"}         \* values of str(uuid4())

\* name and timeout are constructor arguments; two instances share the name "beta"
\* (research_agents.py gives the names and timeouts of the workflow's agents)
WorkflowAgentNames ==
    <<"QueryAnalyzer", "WebSearch", "ContentExtractor", "InsightGenerator",
      "ReportFormatter", "Validation">>
WorkflowAgentTimeouts == <<10, 30, 60, 45, 20, 30>>

NameOf(a) ==
    IF a > Reducer THEN WorkflowAgentNames[PhaseOf(a)]
    ELSE IF a = Reducer THEN "reducer" ELSE IF a = 1 THEN "alpha" ELSE "beta"
TimeoutOf(a) ==
    IF a > Reducer THEN WorkflowAgentTimeouts[PhaseOf(a)]
    ELSE IF a = 2 THEN 2 ELSE 1

\* what the opaque core computation _execute can do
\* (the payload is opaque to the callers: it is tagged with the instance producing it)
DataOf(a)  == "d" \o ToString(a)
Messages   == {"boom", ""}
Returns(a) == {[kind |-> "return", val |-> DataOf(a)]}
Raises     == [kind : {"raise"}, val : Messages]
RaiseTimeoutError == [kind |-> "raise_timeout", val |-> ""]
RaiseBaseException == [kind |-> "raise_base", val |-> "cancelled"]
Elapsed    == [kind |-> "timeout", val |-> ""]
Pending    == [kind |-> "pending", val |-> ""]
Outcomes(a) == Returns(a) \cup Raises \cup {RaiseTimeoutError, RaiseBaseException}
PlainOutcomes(a) == Returns(a) \cup {[kind |-> "raise", val |-> "boom"]}

InitialInput == "in"

VARIABLES
    now,         \* time.time(), in seconds
    agents,      \* AgentOrchestrator.agents
    octx,        \* AgentOrchestrator._context (a dict reference)
    actx,        \* BaseAgent._context of every instance (a dict reference)
    next_agent,  \* ChainableAgent.next_agent of every instance
    heap,        \* the dict objects: keys, and the value under "previous_results"
    tasks,       \* every invocation of BaseAgent.execute, in the order of the calls
    calls,       \* the frames of the orchestration coroutines
    research_storage,  \* research.py's module-level dict: id -> entry
    workflows,   \* the frames of the execute_research coroutines, by research id
    response,    \* what the latest get_research_status call gave its caller
    client       \* sdk: the NSAIClient object and the frame of its _make_request call

vars == <<now, agents, octx, actx, next_agent, heap, tasks, calls,
          research_storage, workflows, response, client>>

\* ------------------------------------------------------------------ dicts
EmptyDict == [keys |-> {}, prev |-> <<>>]

\* the mutable store the synchronous code between two awaits works on
Store ==
    [heap |-> heap, actx |-> actx, octx |-> octx, tasks |-> tasks, calls |-> calls,
     storage |-> research_storage, runs |-> workflows, response |-> response]

Commit(S) ==
    /\ heap' = S.heap
    /\ actx' = S.actx
    /\ octx' = S.octx
    /\ tasks' = S.tasks
    /\ calls' = S.calls
    /\ research_storage' = S.storage
    /\ workflows' = S.runs
    /\ response' = S.response
    /\ client' = client

Alloc(S, d) == [S EXCEPT !.heap = Append(@, d)]
Newest(S)   == Len(S.heap)

Falsy(S, ref) == ref = Null \/ S.heap[ref].keys = {}

\* `context or {}`: the operand itself when it is a non-empty dict, else a new dict
OrEmptyStore(S, ref) == IF Falsy(S, ref) THEN Alloc(S, EmptyDict) ELSE S
OrEmptyRef(S, ref)   == IF Falsy(S, ref) THEN Len(S.heap) + 1 ELSE ref

\* ------------------------------------------------------- result envelope
GetMetadata(S, a) ==
    [agent_id |-> a, context_keys |-> S.heap[S.actx[a]].keys]

AgentResult(name, success, data, error, duration_ms, metadata) ==
    [agent_name |-> name, success |-> success, data |-> data, error |-> error,
     duration_ms |-> duration_ms, metadata |-> metadata]

\* (mutant) the message does not state the configured timeout
TimeoutMessage_NoValue(a) ==
    "Agent execution timed out"

\* f"Agent execution timed out after {self.timeout}s"
TimeoutMessage(a) ==
    "Agent execution timed out after " \o ToString(TimeoutOf(a)) \o "s"

DurationMs(start) == (now - start) * MsPerSecond

\* (mutant) the `except Exception` clause is missing
CaughtAsException_Missing(o) == FALSE

\* the except clauses of execute: asyncio.TimeoutError, then Exception
CaughtAsTimeout(o) == o.kind \in {"timeout", "raise_timeout"}
CaughtAsException(o) == o.kind = "raise"

\* (mutant) a raised Exception is reported by a fixed text, not by its message
ExecuteResult_FixedError(S, a, start, o) ==
    IF o.kind = "return"
      THEN <<AgentResult(NameOf(a), TRUE, o.val, None, DurationMs(start), GetMetadata(S, a))>>
    ELSE IF CaughtAsTimeout(o)
      THEN <<AgentResult(NameOf(a), FALSE, None, TimeoutMessage(a), DurationMs(start),
                         GetMetadata(S, a))>>
    ELSE IF CaughtAsException(o)
      THEN <<AgentResult(NameOf(a), FALSE, None, "Agent execution failed", DurationMs(start),
                         GetMetadata(S, a))>>
    ELSE <<>>

\* what execute hands to its caller once the awaited computation ended with o:
\* <<envelope>>, or <<>> when the exception leaves execute
ExecuteResult(S, a, start, o) ==
    IF o.kind = "return"
      THEN <<AgentResult(NameOf(a), TRUE, o.val, None, DurationMs(start), GetMetadata(S, a))>>
    ELSE IF CaughtAsTimeout(o)
      THEN <<AgentResult(NameOf(a), FALSE, None, TimeoutMessage(a), DurationMs(start),
                         GetMetadata(S, a))>>
    ELSE IF CaughtAsException(o)
      THEN <<AgentResult(NameOf(a), FALSE, None, o.val, DurationMs(start), GetMetadata(S, a))>>
    ELSE <<>>

\* the parameters BaseAgent.__init__ accepts besides self
BaseAgentInitParameters == {"name", "timeout"}

\* ------------------------------------------------------ BaseAgent.execute
NewTask(c, role, a, input, ctxref, S) ==
    [call |-> c, role |-> role, agent |-> a, input |-> input, ctx |-> ctxref,
     ctx_keys |-> IF ctxref = Null THEN {} ELSE S.heap[ctxref].keys,
     ctx_prev |-> IF ctxref = Null THEN <<>> ELSE S.heap[ctxref].prev,
     st |-> "created", start |-> 0, attempts |-> 0, outcome |-> Pending, env |-> <<>>]

\* the coroutine object agent.execute(input, context): nothing of its body has run
CreateCoroutine(S, c, role, a, input, ctxref) ==
    [S EXCEPT !.tasks = Append(@, NewTask(c, role, a, input, ctxref, S))]

\* execute up to the await: start_time, self._context = context or {}, and the
\* one call self._execute(input_data) whose coroutine is handed to wait_for
StartBody(S, t) ==
    LET tk  == S.tasks[t]
        S1  == OrEmptyStore(S, tk.ctx)
        ref == OrEmptyRef(S, tk.ctx)
    IN  [S1 EXCEPT !.actx[tk.agent] = ref,
                   !.tasks[t] = [@ EXCEPT !.st = "running", !.start = now,
                                          !.attempts = @ + 1]]

\* `await agent.execute(input, context)` from a coroutine: runs up to the await
BeginExecute(S, c, role, a, input, ctxref) ==
    LET S1 == CreateCoroutine(S, c, role, a, input, ctxref)
    IN  StartBody(S1, Len(S1.tasks))

\* -------------------------------------- AgentOrchestrator.execute_sequential
IdleCall ==
    [kind |-> "none", pc |-> "idle", input |-> None, ctx |-> Null, results |-> <<>>,
     current_input |-> None, current_agent |-> NoAgent, links |-> <<>>, ret |-> <<>>]

SuccessfulData(results) ==
    LET ok == SelectSeq(results, LAMBDA r : r.success)
    IN  [i \in 1..Len(ok) |-> ok[i].data]

\* (mutant) previous_results holds the latest result only
AgentContext_LastOnly(S, results) ==
    IF results # <<>>
      THEN [keys |-> S.heap[S.octx].keys \cup {"previous_results"},
            prev |-> <<results[Len(results)].data>>]
      ELSE S.heap[S.octx]

\* agent_context = {**self._context}, with previous_results when results is non-empty
AgentContext(S, results) ==
    IF results # <<>>
      THEN [keys |-> S.heap[S.octx].keys \cup {"previous_results"},
            prev |-> SuccessfulData(results)]
      ELSE S.heap[S.octx]

\* (mutant) the loop does not await: the next agent is started along with this one
SeqIterate_StartNext(S, c) ==
    LET call == S.calls[c]
        i    == Len(call.results) + 1
    IN  IF i > Len(agents)
          THEN [S EXCEPT !.calls[c].pc = "done"]
          ELSE LET S1 == Alloc(S, AgentContext(S, call.results))
                   S2 == BeginExecute(S1, c, "seq", agents[i], call.current_input, Newest(S1))
               IN  IF i + 1 > Len(agents) THEN S2
                   ELSE BeginExecute(S2, c, "seq", agents[i + 1], call.current_input,
                                     Newest(S1))

\* one pass of `for agent in self.agents` up to the await, or the return
SeqIterate(S, c) ==
    LET call == S.calls[c]
        i    == Len(call.results) + 1
    IN  IF i > Len(agents)
          THEN [S EXCEPT !.calls[c].pc = "done"]
          ELSE LET S1 == Alloc(S, AgentContext(S, call.results))
               IN  BeginExecute(S1, c, "seq", agents[i], call.current_input, Newest(S1))

\* (mutant) the loop does not break at a failed envelope
SeqAfter_NoBreak(S, c, r) ==
    SeqIterate([S EXCEPT !.calls[c].results = Append(@, r),
                         !.calls[c].current_input = r.data], c)

\* (mutant) the output is not handed on: every agent gets the input of the one before
SeqAfter_KeepInput(S, c, r) ==
    LET S1 == [S EXCEPT !.calls[c].results = Append(@, r)]
    IN  IF ~r.success THEN [S1 EXCEPT !.calls[c].pc = "done"] ELSE SeqIterate(S1, c)

\* an exception leaves the coroutine of call c
Propagate(S, c) == [S EXCEPT !.calls[c].pc = "raised"]

\* (mutant) a failed envelope is turned into an exception
SeqAfter_RaiseOnFailure(S, c, r) ==
    LET S1 == [S EXCEPT !.calls[c].results = Append(@, r)]
    IN  IF ~r.success
          THEN Propagate(S1, c)
          ELSE SeqIterate([S1 EXCEPT !.calls[c].current_input = r.data], c)

\* the rest of the loop body once execute returned r
SeqAfter(S, c, r) ==
    LET S1 == [S EXCEPT !.calls[c].results = Append(@, r)]
    IN  IF ~r.success
          THEN [S1 EXCEPT !.calls[c].pc = "done"]
          ELSE SeqIterate([S1 EXCEPT !.calls[c].current_input = r.data], c)

ExecuteSequential(S, c, input, ctxref) ==
    LET S1 == OrEmptyStore(S, ctxref)
        S2 == [S1 EXCEPT !.octx = OrEmptyRef(S, ctxref),
                         !.calls[c] = [IdleCall EXCEPT !.kind = "seq", !.pc = "running",
                                         !.input = input, !.ctx = ctxref,
                                         !.current_input = input]]
    IN  SeqIterate(S2, c)

\* ---------------------------------------- AgentOrchestrator.execute_parallel
\* the invocations of execute made for call c in role `role`, in creation order
TasksOf(S, c, role) ==
    SelectSeq([i \in 1..Len(S.tasks) |-> i],
              LAMBDA i : S.tasks[i].call = c /\ S.tasks[i].role = role)

\* (mutant) every agent is handed the orchestrator's own dict, not a copy
RECURSIVE BuildTasks_SharedContext(_, _, _, _)
BuildTasks_SharedContext(S, c, input, i) ==
    IF i > Len(agents) THEN S
    ELSE BuildTasks_SharedContext(CreateCoroutine(S, c, "par", agents[i], input, S.octx),
                                  c, input, i + 1)

\* (mutant) only the first registered agent gets a coroutine
RECURSIVE BuildTasks_OnlyFirst(_, _, _, _)
BuildTasks_OnlyFirst(S, c, input, i) ==
    IF i > Len(agents) \/ i > 1 THEN S
    ELSE LET S1 == Alloc(S, S.heap[S.octx])
         IN  BuildTasks_OnlyFirst(CreateCoroutine(S1, c, "par", agents[i], input, Newest(S1)),
                                  c, input, i + 1)

\* the loop building `tasks`: one context copy and one coroutine object per agent
RECURSIVE BuildTasks(_, _, _, _)
BuildTasks(S, c, input, i) ==
    IF i > Len(agents) THEN S
    ELSE LET S1 == Alloc(S, S.heap[S.octx])
         IN  BuildTasks(CreateCoroutine(S1, c, "par", agents[i], input, Newest(S1)),
                        c, input, i + 1)

\* (mutant) a failed awaitable makes gather cancel the ones still pending
GatherOnDone_CancelSiblings(S, t) ==
    IF S.tasks[t].env # <<>> /\ S.tasks[t].env[1].success THEN S
    ELSE [S EXCEPT !.tasks = [u \in 1..Len(S.tasks) |->
            IF /\ u # t
               /\ S.tasks[u].call = S.tasks[t].call
               /\ S.tasks[u].role = "par"
               /\ S.tasks[u].st \in {"created", "running"}
              THEN [S.tasks[u] EXCEPT !.st = "raised",
                                      !.outcome = [kind |-> "cancelled", val |-> ""]]
              ELSE S.tasks[u]]]

\* gather notes that awaitable t is done; it leaves the other awaitables alone
GatherOnDone(S, t) == S

\* (mutant) the results come back in the opposite order
Gathered_Reversed(S, c) ==
    LET ts == TasksOf(S, c, "par")
    IN  [i \in 1..Len(ts) |-> S.tasks[ts[Len(ts) + 1 - i]].env[1]]

\* what asyncio.gather hands back: one result per awaitable, in argument order
Gathered(S, c) ==
    LET ts == TasksOf(S, c, "par")
    IN  [i \in 1..Len(ts) |-> S.tasks[ts[i]].env[1]]

\* --------------------------------------- AgentOrchestrator.execute_map_reduce
RECURSIVE SumDuration(_)
SumDuration(rs) ==
    IF rs = <<>> THEN 0 ELSE rs[1].duration_ms + SumDuration(Tail(rs))

\* (mutant) the duration is that of the slowest map agent, not the sum
MapFailed_MaxDuration(map_results) ==
    LET failed == SelectSeq(map_results, LAMBDA r : ~r.success)
        ds     == {map_results[i].duration_ms : i \in 1..Len(map_results)}
    IN  AgentResult("map_reduce", FALSE, None, "All map agents failed",
                    IF ds = {} THEN 0 ELSE CHOOSE d \in ds : \A e \in ds : e <= d,
                    [failed_agents |-> [i \in 1..Len(failed) |-> failed[i].agent_name]])

MapFailed(map_results) ==
    LET failed == SelectSeq(map_results, LAMBDA r : ~r.success)
    IN  AgentResult("map_reduce", FALSE, None, "All map agents failed",
                    SumDuration(map_results),
                    [failed_agents |-> [i \in 1..Len(failed) |-> failed[i].agent_name]])

\* {r.agent_name: r.metadata for r in successful_results}: a later entry replaces
\* an earlier one of the same name
MetadataByName(ok) ==
    [n \in {ok[i].agent_name : i \in 1..Len(ok)} |->
        LET last == CHOOSE i \in 1..Len(ok) :
                        /\ ok[i].agent_name = n
                        /\ \A j \in (i + 1)..Len(ok) : ok[j].agent_name # n
        IN  ok[last].metadata]

\* (mutant) the data values are listed latest first
ReduceInput_Reversed(ok) ==
    [results |-> [i \in 1..Len(ok) |-> ok[Len(ok) + 1 - i].data],
     metadata |-> MetadataByName(ok)]

\* reduce_input: the data and the metadata of the successful map envelopes
ReduceInput(ok) ==
    [results |-> [i \in 1..Len(ok) |-> ok[i].data], metadata |-> MetadataByName(ok)]

\* (mutant) the reducer is called whether or not a map agent succeeded
ReducePhase_AlwaysReduce(S, c, map_results) ==
    LET ok == SelectSeq(map_results, LAMBDA r : r.success)
    IN  BeginExecute([S EXCEPT !.calls[c].results = map_results,
                               !.calls[c].pc = "reducing"],
                     c, "reduce", Reducer, ReduceInput(ok), S.calls[c].ctx)

\* (mutant) with no map envelope at all the reducer is called on an empty input
ReducePhase_ReduceNothing(S, c, map_results) ==
    LET ok == SelectSeq(map_results, LAMBDA r : r.success)
    IN  IF ok = <<>> /\ map_results # <<>>
          THEN [S EXCEPT !.calls[c].results = map_results,
                         !.calls[c].ret = <<MapFailed(map_results)>>,
                         !.calls[c].pc = "done"]
          ELSE BeginExecute([S EXCEPT !.calls[c].results = map_results,
                                      !.calls[c].pc = "reducing"],
                            c, "reduce", Reducer, ReduceInput(ok), S.calls[c].ctx)

\* execute_map_reduce from the return of execute_parallel on
ReducePhase(S, c, map_results) ==
    LET ok == SelectSeq(map_results, LAMBDA r : r.success)
    IN  IF ok = <<>>
          THEN [S EXCEPT !.calls[c].results = map_results,
                         !.calls[c].ret = <<MapFailed(map_results)>>,
                         !.calls[c].pc = "done"]
          ELSE BeginExecute([S EXCEPT !.calls[c].results = map_results,
                                      !.calls[c].pc = "reducing"],
                            c, "reduce", Reducer, ReduceInput(ok), S.calls[c].ctx)

\* the coroutine of call c resumes with the list gather produced
AfterGather(S, c) ==
    IF S.calls[c].kind = "mr"
      THEN ReducePhase(S, c, Gathered(S, c))
      ELSE [S EXCEPT !.calls[c].results = Gathered(S, c), !.calls[c].pc = "done"]

\* execute_parallel up to `await asyncio.gather(*tasks)`; gather of nothing is done
\* at once, so the caller goes on without suspending
ExecuteParallel(S, c, kind, input, ctxref) ==
    LET S1 == OrEmptyStore(S, ctxref)
        S2 == [S1 EXCEPT !.octx = OrEmptyRef(S, ctxref),
                         !.calls[c] = [IdleCall EXCEPT !.kind = kind, !.pc = "gathering",
                                         !.input = input, !.ctx = ctxref]]
        S3 == BuildTasks(S2, c, input, 1)
    IN  IF agents = <<>> THEN AfterGather(S3, c) ELSE S3

\* ------------------------------------------- ChainableAgent.execute_chain
ExecuteChain(S, c, head, input, ctxref) ==
    BeginExecute([S EXCEPT !.calls[c] = [IdleCall EXCEPT !.kind = "chain", !.pc = "running",
                                           !.input = input, !.ctx = ctxref,
                                           !.current_input = input,
                                           !.current_agent = head,
                                           !.links = next_agent]],
                 c, "chain", head, input, ctxref)

\* the successor the loop moves to: getattr(current_agent, 'next_agent', None)
Successor(S, c) == next_agent[S.calls[c].current_agent]

\* (mutant) every agent of the chain is given the input of the head
ChainAfter_KeepInput(S, c, r) ==
    LET S1  == [S EXCEPT !.calls[c].results = Append(@, r)]
        nxt == Successor(S, c)
    IN  IF ~r.success \/ nxt = NoAgent
          THEN [S1 EXCEPT !.calls[c].pc = "done"]
          ELSE BeginExecute([S1 EXCEPT !.calls[c].current_agent = nxt],
                            c, "chain", nxt, S.calls[c].current_input, S.calls[c].ctx)

\* (mutant) the walk goes on to the successor after a failed envelope
ChainAfter_NoStop(S, c, r) ==
    LET S1  == [S EXCEPT !.calls[c].results = Append(@, r)]
        nxt == Successor(S, c)
    IN  IF nxt = NoAgent
          THEN [S1 EXCEPT !.calls[c].pc = "done"]
          ELSE BeginExecute([S1 EXCEPT !.calls[c].current_input = r.data,
                                       !.calls[c].current_agent = nxt],
                            c, "chain", nxt, r.data, S.calls[c].ctx)

\* (mutant) the walk does not advance: the agent just executed is executed again
ChainAfter_Repeat(S, c, r) ==
    LET S1  == [S EXCEPT !.calls[c].results = Append(@, r)]
        nxt == S.calls[c].current_agent
    IN  IF ~r.success
          THEN [S1 EXCEPT !.calls[c].pc = "done"]
          ELSE BeginExecute([S1 EXCEPT !.calls[c].current_input = r.data],
                            c, "chain", nxt, r.data, S.calls[c].ctx)

\* the rest of the while body once execute returned r
ChainAfter(S, c, r) ==
    LET S1  == [S EXCEPT !.calls[c].results = Append(@, r)]
        nxt == Successor(S, c)
    IN  IF ~r.success \/ nxt = NoAgent
          THEN [S1 EXCEPT !.calls[c].pc = "done",
                          !.calls[c].current_agent = IF r.success THEN nxt ELSE @,
                          !.calls[c].current_input = IF r.success THEN r.data ELSE @]
          ELSE BeginExecute([S1 EXCEPT !.calls[c].current_input = r.data,
                                       !.calls[c].current_agent = nxt],
                            c, "chain", nxt, r.data, S.calls[c].ctx)

\* ------------------------------------------------ research.py: status store
\* the entry create_research_query stores: it has no "message" key yet
InitialEntry(id) ==
    [id |-> id, status |-> "processing", progress |-> 0, message |-> <<>>,
     query |-> "query", created_at |-> now, updated_at |-> now, user_id |-> "anonymous"]

\* (mutant) the update leaves updated_at as it was
UpdateResearchStatus_NoRefresh(S, id, status, progress, message) ==
    IF S.storage[id] # <<>>
      THEN [S EXCEPT !.storage[id] =
              <<[@[1] EXCEPT !.status = status, !.progress = progress,
                            !.message = <<message>>]>>]
      ELSE S

\* (mutant) the update creates the entry when the id is unknown
UpdateResearchStatus_Upsert(S, id, status, progress, message) ==
    [S EXCEPT !.storage[id] =
        <<[(IF @ = <<>> THEN InitialEntry(id) ELSE @[1])
              EXCEPT !.status = status, !.progress = progress,
                     !.message = <<message>>, !.updated_at = now]>>]

\* (mutant) the update writes the message of the entry on a later turn of the loop
UpdateResearchStatus_MessageLater(S, id, status, progress, message) ==
    IF S.storage[id] # <<>>
      THEN [S EXCEPT !.storage[id] =
              <<[@[1] EXCEPT !.status = status, !.progress = progress,
                            !.updated_at = now]>>]
      ELSE S

\* (mutant) the update is applied to every stored entry
UpdateResearchStatus_AllEntries(S, id, status, progress, message) ==
    [S EXCEPT !.storage = [i \in ResearchIds |->
        IF S.storage[i] = <<>> THEN <<>>
        ELSE <<[S.storage[i][1] EXCEPT !.status = status, !.progress = progress,
                                      !.message = <<message>>, !.updated_at = now]>>]]

\* update_research_status: dict.update on the entry, nothing for an unknown id
UpdateResearchStatus(S, id, status, progress, message) ==
    IF S.storage[id] # <<>>
      THEN [S EXCEPT !.storage[id] =
              <<[@[1] EXCEPT !.status = status, !.progress = progress,
                            !.message = <<message>>, !.updated_at = now]>>]
      ELSE S

\* the names bound in research.py by its imports from backend.core.exceptions
ImportedExceptions == {"ResearchError", "ValidationError"}

\* `raise Name(...)`: evaluating a name the module does not bind raises NameError
RaisedBy(name) == IF name \in ImportedExceptions THEN name ELSE "NameError"

\* the ResearchStatus model built from an entry (data.get for progress and message)
ResearchStatus(data) ==
    [id |-> data.id, status |-> data.status, progress |-> data.progress,
     message |-> IF data.message = <<>> THEN "" ELSE data.message[1],
     created_at |-> data.created_at, updated_at |-> data.updated_at]

\* get_research_status: the snapshot, or the exception the raise statement produces
GetResearchStatus(S, id) ==
    IF S.storage[id] = <<>>
      THEN [S EXCEPT !.response =
              <<[id |-> id, raised |-> RaisedBy("ResourceNotFoundError"), body |-> <<>>]>>]
      ELSE [S EXCEPT !.response =
              <<[id |-> id, raised |-> None, body |-> <<ResearchStatus(S.storage[id][1])>>]>>]

\* ------------------------------------------------ research.py: execute_research
IdleRun ==
    [pc |-> "none", enable_validation |-> FALSE, results |-> <<>>, ret |-> <<>>]

\* `SomeAgent()` followed by `await agent.execute(input)`: a new instance with an
\* empty context, executed without a context argument
StartPhase(S, id, k, input) ==
    LET S1 == Alloc(S, EmptyDict)
        S2 == [S1 EXCEPT !.actx[PhaseAgent(k)] = Newest(S1)]
    IN  BeginExecute(S2, id, "wf", PhaseAgent(k), input, Null)

\* the status, progress and message written before phase k
StageStatus   == <<"analyzing", "searching", "extracting", "analyzing", "formatting",
                   "validating">>

\* (mutant) the progress written before insight generation is below the one before it
StageProgress_Regress == <<10, 25, 40, 30, 80, 95>>

StageProgress == <<10, 25, 40, 60, 80, 95>>

StageMessage  == <<"Analyzing query...", "Searching for information...",
                   "Extracting content...", "Generating insights...",
                   "Formatting report...", "Validating results...">>
FailurePrefix == <<"Query analysis failed: ", "Web search failed: ",
                   "Content extraction failed: ", "Insight generation failed: ",
                   "Report formatting failed: ">>

\* the input of phase k, built from the data of the envelopes so far
PhaseInput(k, results) ==
    CASE k = 1 -> "query"
      [] k = 2 -> results[1].data
      [] k = 3 -> results[2].data \o "[:max_sources]"
      [] k = 4 -> [content |-> results[3].data, analysis_params |-> results[1].data]
      [] k = 5 -> [insights |-> results[4].data, query |-> "query",
                   sources |-> results[3].data]
      [] OTHER -> [report |-> results[5].data, sources |-> results[3].data]

\* update the status, construct the agent of phase k and await its execute
EnterPhase(S, id, k) ==
    StartPhase(UpdateResearchStatus(S, id, StageStatus[k], StageProgress[k], StageMessage[k]),
               id, k, PhaseInput(k, S.runs[id].results))

\* (mutant) the result returned by the except clause reports success
WorkflowFailed_ReportsSuccess(S, id, text) ==
    LET S1 == UpdateResearchStatus(S, id, "failed", 0, text)
    IN  [S1 EXCEPT !.runs[id].pc = "returned",
                   !.runs[id].ret = <<[success |-> TRUE, report |-> "", error |-> text,
                                       validation |-> None]>>]

\* the except clause: `raise ResearchError(text)` is caught, recorded and returned
WorkflowFailed(S, id, text) ==
    LET S1 == UpdateResearchStatus(S, id, "failed", 0, text)
    IN  [S1 EXCEPT !.runs[id].pc = "returned",
                   !.runs[id].ret = <<[success |-> FALSE, report |-> "", error |-> text,
                                       validation |-> None]>>]

\* the end of the try block: status completed, then the result dict
WorkflowCompleted(S, id, final_report, validation_data) ==
    LET S1 == UpdateResearchStatus(S, id, "completed", 100, "Research completed")
    IN  [S1 EXCEPT !.runs[id].pc = "returned",
                   !.runs[id].ret = <<[success |-> TRUE, report |-> final_report,
                                       error |-> None, validation |-> validation_data]>>]

\* (mutant) a failed envelope of a phase before formatting does not stop the run
WorkflowAfter_ContinueOnFailure(S, id, r) ==
    LET S1 == [S EXCEPT !.runs[id].results = Append(@, r)]
        k  == Len(S1.runs[id].results)
    IN  IF k = 5 /\ ~r.success
          THEN WorkflowFailed(S1, id, FailurePrefix[k] \o r.error)
        ELSE IF k < 5 THEN EnterPhase(S1, id, k + 1)
        ELSE IF k = 5
          THEN IF S1.runs[id].enable_validation
                 THEN EnterPhase(S1, id, 6)
                 ELSE WorkflowCompleted(S1, id, r.data, "{}")
        ELSE WorkflowCompleted(S1, id, S1.runs[id].results[5].data,
                               IF r.success THEN r.data ELSE "{}")

\* (mutant) a failed validation envelope fails the run like the other phases
WorkflowAfter_ValidationFatal(S, id, r) ==
    LET S1 == [S EXCEPT !.runs[id].results = Append(@, r)]
        k  == Len(S1.runs[id].results)
    IN  IF ~r.success
          THEN WorkflowFailed(S1, id, (IF k <= 5 THEN FailurePrefix[k] ELSE "") \o r.error)
        ELSE IF k < 5 THEN EnterPhase(S1, id, k + 1)
        ELSE IF k = 5
          THEN IF S1.runs[id].enable_validation
                 THEN EnterPhase(S1, id, 6)
                 ELSE WorkflowCompleted(S1, id, r.data, "{}")
        ELSE WorkflowCompleted(S1, id, S1.runs[id].results[5].data, r.data)

\* execute_research from the return of the execute call of a phase on
WorkflowAfter(S, id, r) ==
    LET S1 == [S EXCEPT !.runs[id].results = Append(@, r)]
        k  == Len(S1.runs[id].results)
    IN  IF k <= 5 /\ ~r.success
          THEN WorkflowFailed(S1, id, FailurePrefix[k] \o r.error)
        ELSE IF k < 5 THEN EnterPhase(S1, id, k + 1)
        ELSE IF k = 5
          THEN IF S1.runs[id].enable_validation
                 THEN EnterPhase(S1, id, 6)
                 ELSE WorkflowCompleted(S1, id, r.data, "{}")
        ELSE WorkflowCompleted(S1, id, S1.runs[id].results[5].data,
                               IF r.success THEN r.data ELSE "{}")

\* execute_research up to the first await
ExecuteResearch(S, id) ==
    EnterPhase([S EXCEPT !.runs[id].pc = "running"], id, 1)

\* ------------------------------------------------- resuming after the await
\* (mutant) a failed reducer envelope is turned into an exception
ReduceReturn_RaiseOnFailure(S, c, r) ==
    IF r.success THEN [S EXCEPT !.calls[c].ret = <<r>>, !.calls[c].pc = "done"]
    ELSE Propagate(S, c)

\* `return await reducer.execute(reduce_input, context)`: the envelope is handed on
ReduceReturn(S, c, r) ==
    [S EXCEPT !.calls[c].ret = <<r>>, !.calls[c].pc = "done"]

Resume(S, t, o) ==
    LET tk == S.tasks[t]
        r  == ExecuteResult(S, tk.agent, tk.start, o)
        S1 == [S EXCEPT !.tasks[t] = [@ EXCEPT !.st = IF r = <<>> THEN "raised" ELSE "returned",
                                                !.outcome = o, !.env = r]]
    IN  CASE tk.role = "seq" -> IF r = <<>> THEN Propagate(S1, tk.call)
                                            ELSE SeqAfter(S1, tk.call, r[1])
          [] tk.role = "chain" -> IF r = <<>> THEN Propagate(S1, tk.call)
                                              ELSE ChainAfter(S1, tk.call, r[1])
          [] tk.role = "reduce" -> IF r = <<>> THEN Propagate(S1, tk.call)
                                              ELSE ReduceReturn(S1, tk.call, r[1])
          [] tk.role = "wf" -> IF r = <<>> THEN [S1 EXCEPT !.runs[tk.call].pc = "raised"]
                                           ELSE WorkflowAfter(S1, tk.call, r[1])
          [] OTHER -> GatherOnDone(S1, t)

\* ------------------------------------------- sdk: NSAIClient._make_request
\* what one call of self._client.request can give: a response with a status code,
\* a Retry-After header (or none) and a body, or an exception out of the transport
DefaultRetryAfter == 60
RetryAfterHeaders == {None, "1", "Wed, 04 Nov 2026 08:00:00 GMT"}
JsonBodies == {"{\"a\": 1}"}
Bodies == JsonBodies \cup {"<html>"}
TransportError == [kind |-> "exception", status |-> 0, retry_after |-> None, body |-> ""]
HttpResponse(status, header, body) ==
    [kind |-> "response", status |-> status, retry_after |-> header, body |-> body]
Responses ==
    {HttpResponse(200, None, b) : b \in Bodies}
    \cup {HttpResponse(s, None, "denied") : s \in {401, 403, 404, 500}}
    \cup {HttpResponse(429, h, "slow down") : h \in RetryAfterHeaders}
    \cup {TransportError}

\* int(response.headers.get("Retry-After", 60)): <<n>>, or <<>> for a ValueError
IntOfRetryAfter(h) ==
    CASE h = None -> <<DefaultRetryAfter>>
      [] h = "1"  -> <<1>>
      [] OTHER    -> <<>>

\* response.json(): <<value>>, or <<>> when the body is not JSON
JsonOf(body) == IF body \in JsonBodies THEN <<"json:" \o body>> ELSE <<>>

RECURSIVE Pow2(_)
Pow2(n) == IF n = 0 THEN 1 ELSE 2 * Pow2(n - 1)

NoClient ==
    [pc |-> "none", max_retries |-> 0, attempt |-> 0, last_error |-> None,
     received |-> <<>>, sleeps |-> <<>>, ret |-> <<>>, raised |-> <<>>]

RateLimitText(n) == "Rate limit exceeded. Retry after " \o ToString(n) \o " seconds"

\* the statement after the for loop
RaiseAfterLoop(c) ==
    [c EXCEPT !.pc = "raised",
              !.raised = <<[type |-> "NSAIError",
                            text |-> "Request failed after " \o ToString(c.max_retries)
                                     \o " attempts: " \o c.last_error]>>]

\* an exception raised in an except clause, or a return, leaves _make_request
RaiseOut(c, type, text) ==
    [c EXCEPT !.pc = "raised", !.raised = <<[type |-> type, text |-> text]>>]

\* `if attempt < self.max_retries - 1: time.sleep(seconds); continue`; on the last
\* attempt the loop is left
SleepAndContinue(c, seconds) ==
    IF c.attempt < c.max_retries - 1
      THEN [c EXCEPT !.sleeps = Append(@, seconds), !.attempt = @ + 1]
      ELSE RaiseAfterLoop(c)

\* `except Exception as e`: it also catches what the try block itself raised
ExceptException(c, text) ==
    SleepAndContinue([c EXCEPT !.last_error = text], Pow2(c.attempt))

\* (mutant) a 401 or 403 is retried like a server error
ExceptHTTPStatusError_RetryAuth(c, resp) ==
    IF resp.status = 404
      THEN RaiseOut(c, "NSAIError", "API error: " \o resp.body)
      ELSE SleepAndContinue([c EXCEPT !.last_error = "HTTP " \o ToString(resp.status)],
                            Pow2(c.attempt))

\* `except httpx.HTTPStatusError as e`, for what raise_for_status raised
ExceptHTTPStatusError(c, resp) ==
    IF resp.status = 401 THEN RaiseOut(c, "AuthenticationError", "Invalid API key")
    ELSE IF resp.status = 403
      THEN RaiseOut(c, "AuthenticationError", "Insufficient permissions")
    ELSE IF resp.status >= 500
      THEN SleepAndContinue([c EXCEPT !.last_error = "HTTP " \o ToString(resp.status)],
                            Pow2(c.attempt))
    ELSE RaiseOut(c, "NSAIError", "API error: " \o resp.body)

\* the 429 branch of the try block: the RateLimitError it raises on the last attempt
\* is raised inside the try and so is handled by `except Exception`
RateLimited(c, resp) ==
    LET retry_after == IntOfRetryAfter(resp.retry_after)
    IN  IF retry_after = <<>> THEN ExceptException(c, "invalid literal for int()")
        ELSE IF c.attempt < c.max_retries - 1
          THEN [c EXCEPT !.sleeps = Append(@, retry_after[1]), !.attempt = @ + 1]
        ELSE ExceptException(c, RateLimitText(retry_after[1]))

\* one iteration of the for loop, from the request to the next request or the end
Iteration(c, resp) ==
    LET c1 == [c EXCEPT !.received = Append(@, resp)]
    IN  IF resp.kind = "exception" THEN ExceptException(c1, "transport error")
        ELSE IF resp.status = 429 THEN RateLimited(c1, resp)
        ELSE IF resp.status >= 400 THEN ExceptHTTPStatusError(c1, resp)
        ELSE IF JsonOf(resp.body) = <<>> THEN ExceptException(c1, "JSONDecodeError")
        ELSE [c1 EXCEPT !.pc = "returned", !.ret = JsonOf(resp.body)]

\* _make_request up to its first request; `for attempt in range(0)` has no iteration
EnterMakeRequest(c) ==
    IF c.max_retries = 0 THEN RaiseAfterLoop(c)
    ELSE [c EXCEPT !.pc = "requesting", !.attempt = 0]

\* ---------------------------------------------------------------- actions
ContextChoices == {"none", "empty", "own"}

\* the dict (or None) a caller passes as `context`; its only key names the caller
WithCallerDict(S, choice, c) ==
    IF choice = "none" THEN S
    ELSE Alloc(S, [keys |-> IF choice = "own" THEN {c} ELSE {}, prev |-> <<>>])
CallerRef(S, choice) == IF choice = "none" THEN Null ELSE Len(S.heap) + 1

NoCallYet == \A c \in CallIds : calls[c].pc = "idle"

AddAgent ==
    /\ NoCallYet
    /\ Len(agents) < MaxAgents
    /\ agents' = Append(agents, Len(agents) + 1)
    /\ UNCHANGED <<now, octx, actx, next_agent, heap, tasks, calls,
                 research_storage, workflows, response, client>>

Tick ==
    /\ now < MaxTime
    /\ now' = now + 1
    /\ UNCHANGED <<agents, octx, actx, next_agent, heap, tasks, calls,
                 research_storage, workflows, response, client>>

StartSequential(c, choice) ==
    /\ calls[c].pc = "idle"
    /\ Commit(ExecuteSequential(WithCallerDict(Store, choice, c), c, InitialInput,
                                CallerRef(Store, choice)))
    /\ UNCHANGED <<now, agents, next_agent>>

StartParallel(c, choice) ==
    /\ calls[c].pc = "idle"
    /\ Commit(ExecuteParallel(WithCallerDict(Store, choice, c), c, "par", InitialInput,
                              CallerRef(Store, choice)))
    /\ UNCHANGED <<now, agents, next_agent>>

StartMapReduce(c, choice) ==
    /\ calls[c].pc = "idle"
    /\ Commit(ExecuteParallel(WithCallerDict(Store, choice, c), c, "mr", InitialInput,
                              CallerRef(Store, choice)))
    /\ UNCHANGED <<now, agents, next_agent>>

StartChain(c, head, choice) ==
    /\ calls[c].pc = "idle"
    /\ Commit(ExecuteChain(WithCallerDict(Store, choice, c), c, head, InitialInput,
                           CallerRef(Store, choice)))
    /\ UNCHANGED <<now, agents, next_agent>>

\* (mutant) the link is set on the other agent
Then_Backwards(a, b) ==
    /\ next_agent' = [next_agent EXCEPT ![b] = a]
    /\ UNCHANGED <<now, agents, octx, actx, heap, tasks, calls,
                 research_storage, workflows, response, client>>

\* ChainableAgent.then
Then(a, b) ==
    /\ next_agent' = [next_agent EXCEPT ![a] = b]
    /\ UNCHANGED <<now, agents, octx, actx, heap, tasks, calls,
                 research_storage, workflows, response, client>>

\* BaseAgent.set_context / get_context; the key a computation writes names its agent
KeyOf(a) == "k" \o ToString(a)

GetContext(a, key) == key \in heap[actx[a]].keys

\* the core computation of task t calls self.set_context(KeyOf(agent), value)
SetContext(t) ==
    /\ tasks[t].st = "running"
    /\ ~GetContext(tasks[t].agent, KeyOf(tasks[t].agent))
    /\ heap' = [heap EXCEPT ![actx[tasks[t].agent]].keys = @ \cup {KeyOf(tasks[t].agent)}]
    /\ UNCHANGED <<now, agents, octx, actx, next_agent, tasks, calls,
                 research_storage, workflows, response, client>>

\* the event loop runs the first step of a task gather scheduled (FIFO)
TaskStart(t) ==
    /\ tasks[t].st = "created"
    /\ \A u \in 1..(t - 1) : tasks[u].st # "created"
    /\ Commit(StartBody(Store, t))
    /\ UNCHANGED <<now, agents, next_agent>>

\* every awaitable handed to gather has a result: the caller resumes with the list
GatherDone(c) ==
    /\ calls[c].pc = "gathering"
    /\ \A t \in 1..Len(tasks) :
          tasks[t].call = c /\ tasks[t].role = "par" => tasks[t].st = "returned"
    /\ Commit(AfterGather(Store, c))
    /\ UNCHANGED <<now, agents, next_agent>>

\* gather (return_exceptions=False) passes the first exception on to the caller;
\* the other awaitables are not cancelled
GatherRaise(c) ==
    /\ calls[c].pc = "gathering"
    /\ \E t \in 1..Len(tasks) :
          tasks[t].call = c /\ tasks[t].role = "par" /\ tasks[t].st = "raised"
    /\ Commit(Propagate(Store, c))
    /\ UNCHANGED <<now, agents, next_agent>>

\* (mutant) a computation that raised is tried again, up to three attempts
Complete_RetryUntilSuccess(t, o) ==
    /\ tasks[t].st = "running"
    /\ now - tasks[t].start < TimeoutOf(tasks[t].agent)
    /\ Commit(IF o.kind = "raise" /\ tasks[t].attempts < 3
                THEN [Store EXCEPT !.tasks[t].attempts = @ + 1, !.tasks[t].outcome = o]
                ELSE Resume(Store, t, o))
    /\ tasks[t].role = "chain" => Len(tasks') <= MaxTasks
    /\ UNCHANGED <<now, agents, next_agent>>

\* the core computation of task t ends before its deadline
Complete(t, o) ==
    /\ tasks[t].st = "running"
    /\ now - tasks[t].start < TimeoutOf(tasks[t].agent)
    /\ Commit(Resume(Store, t, o))
    /\ tasks[t].role = "chain" => Len(tasks') <= MaxTasks
    /\ UNCHANGED <<now, agents, next_agent>>

\* (mutant) a computation that ran out of time is started once more
Timeout_Retry(t) ==
    /\ tasks[t].st = "running"
    /\ now - tasks[t].start >= TimeoutOf(tasks[t].agent)
    /\ Commit(IF tasks[t].attempts < 2
                THEN [Store EXCEPT !.tasks[t].attempts = @ + 1]
                ELSE Resume(Store, t, Elapsed))
    /\ UNCHANGED <<now, agents, next_agent>>

\* asyncio.wait_for gives up on task t
Timeout(t) ==
    /\ tasks[t].st = "running"
    /\ now - tasks[t].start >= TimeoutOf(tasks[t].agent)
    /\ Commit(Resume(Store, t, Elapsed))
    /\ UNCHANGED <<now, agents, next_agent>>

\* POST /query: the entry is stored and, unless the response is streamed,
\* execute_research runs up to its first await within the same turn of the loop
CreateResearchQuery(id, enable_validation, stream_response) ==
    /\ research_storage[id] = <<>>
    /\ LET S0 == [Store EXCEPT !.storage[id] = <<InitialEntry(id)>>,
                               !.runs[id] = [IdleRun EXCEPT
                                   !.enable_validation = enable_validation,
                                   !.pc = IF stream_response THEN "streaming" ELSE "none"]]
       IN  Commit(IF stream_response THEN S0 ELSE ExecuteResearch(S0, id))
    /\ UNCHANGED <<now, agents, next_agent>>

\* stream_research: the generator of a streamed response gets to execute_research
StreamResearch(id) ==
    /\ workflows[id].pc = "streaming"
    /\ Commit(ExecuteResearch(Store, id))
    /\ UNCHANGED <<now, agents, next_agent>>

\* GET /status/{research_id}
GetStatus(id) ==
    /\ Commit(GetResearchStatus(Store, id))
    /\ UNCHANGED <<now, agents, next_agent>>

\* a call of update_research_status by any code holding an id
StatusValues   == {"searching", "failed"}
ProgressValues == {0, 25}
MessageValues  == {"oops"}

CallUpdate(id, status, progress, message) ==
    /\ Commit(UpdateResearchStatus(Store, id, status, progress, message))
    /\ UNCHANGED <<now, agents, next_agent>>

\* everything of the backend process, which the SDK client's process does not touch
backend == <<now, agents, octx, actx, next_agent, heap, tasks, calls,
             research_storage, workflows, response>>

\* NSAIClient(api_key=..., max_retries=m)
NewClient(m) ==
    /\ client.pc = "none"
    /\ client' = [NoClient EXCEPT !.pc = "idle", !.max_retries = m]
    /\ UNCHANGED backend

\* a public method of the client calls _make_request
MakeRequest ==
    /\ client.pc = "idle"
    /\ client' = EnterMakeRequest(client)
    /\ UNCHANGED backend

\* the pending request ends with resp, and the iteration handles it
Attempt(resp) ==
    /\ client.pc = "requesting"
    /\ client' = Iteration(client, resp)
    /\ UNCHANGED backend

Init ==
    /\ now = 0
    /\ agents = <<>>
    /\ heap = [i \in 1..(MaxAgents + 2) |-> EmptyDict]
    /\ actx = [a \in Instances \cup WorkflowAgents |-> IF a \in Instances THEN a ELSE Null]
    /\ octx = MaxAgents + 2
    /\ next_agent = [a \in AgentIds |-> NoAgent]
    /\ tasks = <<>>
    /\ calls = [c \in CallIds |-> IdleCall]
    /\ research_storage = [i \in ResearchIds |-> <<>>]
    /\ workflows = [i \in ResearchIds |-> IdleRun]
    /\ response = <<>>
    /\ client = NoClient

NextSeq ==
    \/ AddAgent
    \/ Tick
    \/ \E choice \in ContextChoices : StartSequential("c1", choice)
    \/ \E t \in 1..Len(tasks) : \E o \in Outcomes(tasks[t].agent) : Complete(t, o)
    \/ \E t \in 1..Len(tasks) : Timeout(t)

SpecSeq == Init /\ [][NextSeq]_vars

NextPar ==
    \/ AddAgent
    \/ Tick
    \/ \E choice \in {"none", "own"} : StartParallel("c1", choice)
    \/ \E t \in 1..Len(tasks) : TaskStart(t)
    \/ \E t \in 1..Len(tasks) : \E o \in Outcomes(tasks[t].agent) : Complete(t, o)
    \/ \E t \in 1..Len(tasks) : Timeout(t)
    \/ GatherDone("c1")
    \/ GatherRaise("c1")

SpecPar == Init /\ [][NextPar]_vars

\* the ways a core computation can end: a value, an Exception, or an exception
\* outside Exception
EndingOutcomes(a) == PlainOutcomes(a) \cup {RaiseBaseException}

NextParFair ==
    \/ AddAgent
    \/ Tick
    \/ \E choice \in {"none", "own"} : StartParallel("c1", choice)
    \/ \E t \in 1..Len(tasks) : TaskStart(t)
    \/ \E t \in 1..Len(tasks) : \E o \in EndingOutcomes(tasks[t].agent) : Complete(t, o)
    \/ \E t \in 1..Len(tasks) : Timeout(t)
    \/ GatherDone("c1")
    \/ GatherRaise("c1")

\* the event loop runs every task that is ready, and a core computation either
\* finishes or reaches its timeout
Finish(t) ==
    /\ t \in 1..Len(tasks)
    /\ \/ Timeout(t)
       \/ Complete(t, RaiseBaseException)
       \/ \E o \in PlainOutcomes(tasks[t].agent) : Complete(t, o)

Scheduled(t) == t \in 1..Len(tasks) /\ TaskStart(t)

ParFairness ==
    /\ \A t \in 1..MaxAgents : WF_vars(Scheduled(t)) /\ WF_vars(Finish(t))
    /\ WF_vars(GatherDone("c1"))
    /\ WF_vars(GatherRaise("c1"))

SpecParFair == Init /\ [][NextParFair]_vars /\ ParFairness

\* execute_parallel with computations that write to their context
NextParContext ==
    \/ AddAgent
    \/ Tick
    \/ \E choice \in {"none", "own"} : StartParallel("c1", choice)
    \/ \E t \in 1..Len(tasks) : TaskStart(t)
    \/ \E t \in 1..Len(tasks) : SetContext(t)
    \/ \E t \in 1..Len(tasks) : \E o \in PlainOutcomes(tasks[t].agent) : Complete(t, o)
    \/ \E t \in 1..Len(tasks) : Timeout(t)
    \/ GatherDone("c1")

SpecParContext == Init /\ [][NextParContext]_vars

NextMapReduce ==
    \/ AddAgent
    \/ Tick
    \/ \E choice \in {"none", "own"} : StartMapReduce("c1", choice)
    \/ \E t \in 1..Len(tasks) : TaskStart(t)
    \/ \E t \in 1..Len(tasks) : \E o \in Outcomes(tasks[t].agent) : Complete(t, o)
    \/ \E t \in 1..Len(tasks) : Timeout(t)
    \/ GatherDone("c1")
    \/ GatherRaise("c1")

SpecMapReduce == Init /\ [][NextMapReduce]_vars

NextChain ==
    \/ Tick
    \/ \E a, b \in AgentIds : NoCallYet /\ Then(a, b)
    \/ \E head \in AgentIds : \E choice \in {"none", "own"} : StartChain("c1", head, choice)
    \/ \E t \in 1..Len(tasks) : \E o \in Outcomes(tasks[t].agent) : Complete(t, o)
    \/ \E t \in 1..Len(tasks) : Timeout(t)

SpecChain == Init /\ [][NextChain]_vars

\* one chain run on links set beforehand, on an event loop where every execution
\* that was started ends: its computation finishes or wait_for gives up
NextChainFair ==
    \/ Tick
    \/ \E a, b \in AgentIds : NoCallYet /\ Then(a, b)
    \/ \E head \in AgentIds : StartChain("c1", head, "none")
    \/ \E t \in 1..Len(tasks) : \E o \in EndingOutcomes(tasks[t].agent) : Complete(t, o)
    \/ \E t \in 1..Len(tasks) : Timeout(t)

ChainFairness == \A t \in 1..MaxTasks : WF_vars(Finish(t))

SpecChainFair == Init /\ [][NextChainFair]_vars /\ ChainFairness

\* two coroutines use the same orchestrator at the same time
NextConcurrent ==
    \/ AddAgent
    \/ Tick
    \/ \E c \in CallIds : StartSequential(c, "own")
    \/ \E c \in CallIds : StartParallel(c, "own")
    \/ \E t \in 1..Len(tasks) : TaskStart(t)
    \/ \E t \in 1..Len(tasks) : \E o \in PlainOutcomes(tasks[t].agent) : Complete(t, o)
    \/ \E t \in 1..Len(tasks) : Timeout(t)
    \/ \E c \in CallIds : GatherDone(c)

SpecConcurrent == Init /\ [][NextConcurrent]_vars

\* the registered agents A1..An linked A1.then(A2) ... .then(An), and nothing else
ChainLinked ==
    /\ Len(agents) >= 1
    /\ \A a \in AgentIds :
          next_agent[a] = IF a < Len(agents) THEN a + 1 ELSE NoAgent

\* the same agents run as a chain (call c1) and then by the orchestrator (call c2)
NextEquiv ==
    \/ AddAgent
    \/ Tick
    \/ \E a \in AgentIds : NoCallYet /\ a < Len(agents) /\ Then(a, a + 1)
    \/ ChainLinked /\ StartChain("c1", agents[1], "none")
    \/ calls["c1"].pc \in {"done", "raised"} /\ StartSequential("c2", "none")
    \/ \E t \in 1..Len(tasks) : \E o \in Outcomes(tasks[t].agent) : Complete(t, o)
    \/ \E t \in 1..Len(tasks) : Timeout(t)

SpecEquiv == Init /\ [][NextEquiv]_vars

\* one call of any of the four strategies: on an orchestrator with registered
\* agents, or on a chain of linked agents
NoLinkYet == \A a \in AgentIds : next_agent[a] = NoAgent

NextStrategies ==
    \/ NoLinkYet /\ AddAgent
    \/ Tick
    \/ \E a, b \in AgentIds : NoCallYet /\ agents = <<>> /\ Then(a, b)
    \/ NoLinkYet /\ StartSequential("c1", "none")
    \/ NoLinkYet /\ StartParallel("c1", "none")
    \/ NoLinkYet /\ StartMapReduce("c1", "none")
    \/ \E head \in AgentIds : agents = <<>> /\ StartChain("c1", head, "none")
    \/ \E t \in 1..Len(tasks) : TaskStart(t)
    \/ \E t \in 1..Len(tasks) : \E o \in EndingOutcomes(tasks[t].agent) : Complete(t, o)
    \/ \E t \in 1..Len(tasks) : Timeout(t)
    \/ GatherDone("c1")
    \/ GatherRaise("c1")

SpecStrategies == Init /\ [][NextStrategies]_vars

\* one research workflow and status readers. The agents' timeouts (10 s and more)
\* lie beyond the clock values explored, so wait_for never gives up here; a
\* computation that raises asyncio.TimeoutError itself yields the same envelope
NoEntryYet == \A i \in ResearchIds : research_storage[i] = <<>>

NextWorkflow ==
    \/ Tick
    \/ \E id \in ResearchIds : \E v, s \in BOOLEAN : NoEntryYet /\ CreateResearchQuery(id, v, s)
    \/ \E id \in ResearchIds : StreamResearch(id)
    \/ \E t \in 1..Len(tasks) : \E o \in Outcomes(tasks[t].agent) : Complete(t, o)
    \/ \E id \in ResearchIds : GetStatus(id)

SpecWorkflow == Init /\ [][NextWorkflow]_vars

\* the workflow alone (no status readers) on an event loop that resumes execute_research whenever the
\* execution it awaits has ended: the agents' computations all end, and their
\* deadlines (10 s and more) are not reached, so Complete stays enabled until taken
WorkflowFairness ==
    WF_vars(\E t \in 1..Len(tasks) :
               \/ Complete(t, RaiseBaseException)
               \/ \E o \in Outcomes(tasks[t].agent) : Complete(t, o))

NextWorkflowRun ==
    \/ Tick
    \/ \E id \in ResearchIds : \E v, s \in BOOLEAN : NoEntryYet /\ CreateResearchQuery(id, v, s)
    \/ \E id \in ResearchIds : StreamResearch(id)
    \/ \E t \in 1..Len(tasks) : \E o \in Outcomes(tasks[t].agent) : Complete(t, o)

SpecWorkflowFair == Init /\ [][NextWorkflowRun]_vars /\ WorkflowFairness

\* one SDK client and one request made through it; httpx ends every request, with
\* a response or with an exception (a timeout at the latest), and time.sleep returns
NextClient ==
    \/ \E m \in 0..MaxRetries : NewClient(m)
    \/ MakeRequest
    \/ \E resp \in Responses : Attempt(resp)

ClientFairness == WF_vars(\E resp \in Responses : Attempt(resp))

SpecClient == Init /\ [][NextClient]_vars /\ ClientFairness

\* the status store used directly: entries, updates and reads in any order
NextTracker ==
    \/ Tick
    \/ \E id \in ResearchIds : CreateResearchQuery(id, FALSE, TRUE)
    \/ \E id \in ResearchIds : \E s \in StatusValues : \E p \in ProgressValues :
          \E m \in MessageValues : CallUpdate(id, s, p, m)
    \/ \E id \in ResearchIds : GetStatus(id)

SpecTracker == Init /\ [][NextTracker]_vars

\* a chain whose links are changed while it runs (then() has no guard)
NextRelink ==
    \/ Tick
    \/ \E a, b \in AgentIds : Then(a, b)
    \/ \E head \in AgentIds : StartChain("c1", head, "none")
    \/ \E t \in 1..Len(tasks) : \E o \in PlainOutcomes(tasks[t].agent) : Complete(t, o)
    \/ \E t \in 1..Len(tasks) : Timeout(t)

SpecRelink == Init /\ [][NextRelink]_vars

\* ================================================================= claims
TaskIds     == 1..Len(tasks)
Ended(t)    == tasks[t].st \in {"returned", "raised"}
Envelope(t) == tasks[t].env[1]
TheCall     == calls["c1"]
SeqTasks    == TasksOf(Store, "c1", "seq")
ParTasks    == TasksOf(Store, "c1", "par")
ReduceTasks == TasksOf(Store, "c1", "reduce")
ChainTasks  == TasksOf(Store, "c1", "chain")

\* the moment the computation of task t ended, in milliseconds
EndMs(t) == tasks[t].start * MsPerSecond + Envelope(t).duration_ms

\* C1 (as stated): BaseAgent.execute never raises to its caller, whatever the core
\* computation does.
C1_ExecuteNeverRaises ==
    \A t \in TaskIds : tasks[t].st # "raised"

\* C1 (amended): execute returns exactly one AgentResult, whose success field tells
\* the outcome, when the core computation returns, raises an exception derived from
\* Exception, or runs into the timeout; only an exception outside Exception
\* (CancelledError, KeyboardInterrupt, SystemExit) leaves execute.
C1_ExecuteReturnsEnvelope ==
    \A t \in TaskIds :
        /\ ~Ended(t) => tasks[t].env = <<>> /\ tasks[t].outcome = Pending
        /\ tasks[t].st = "raised" <=> tasks[t].outcome.kind = "raise_base"
        /\ tasks[t].st = "raised" => tasks[t].env = <<>>
        /\ tasks[t].st = "returned" =>
              /\ Len(tasks[t].env) = 1
              /\ Envelope(t).success = (tasks[t].outcome.kind = "return")

C1_Witness ==
    \E t, u \in TaskIds :
        /\ tasks[t].st = "returned" /\ tasks[t].outcome.kind = "raise"
        /\ ~Envelope(t).success
        /\ tasks[u].st = "returned" /\ tasks[u].outcome.kind = "return"

\* C2: every envelope produced by execute or by execute_map_reduce has no error when
\* it succeeded, and no data and a non-empty error when it failed.
EnvelopeInvariant(r) ==
    /\ r.success => r.error = None
    /\ ~r.success => r.data = None /\ r.error # None /\ r.error # ""

C2_EnvelopeInvariant ==
    /\ \A t \in TaskIds : tasks[t].env # <<>> => EnvelopeInvariant(Envelope(t))
    /\ \A c \in CallIds : calls[c].ret # <<>> => EnvelopeInvariant(calls[c].ret[1])

\* C3: execute_sequential invokes the agents in registration order, never invokes
\* an agent registered after the first failing one, and returns the envelopes up to
\* and including the first failure (one per agent when none fails).
C3_SequentialPrefix ==
    /\ \A k \in 1..Len(SeqTasks) : SeqTasks[k] = k /\ tasks[k].agent = agents[k]
    /\ \A k \in 2..Len(tasks) :
          tasks[k - 1].st = "returned" /\ Envelope(k - 1).success
    /\ TheCall.pc = "done" =>
          /\ Len(TheCall.results) = Len(tasks)
          /\ \A k \in 1..Len(tasks) : TheCall.results[k] = Envelope(k)
          /\ \/ /\ Len(TheCall.results) = Len(agents)
                /\ \A k \in 1..Len(tasks) : Envelope(k).success
             \/ /\ Len(TheCall.results) >= 1
                /\ ~TheCall.results[Len(TheCall.results)].success

C3_Witness ==
    /\ TheCall.pc = "done"
    /\ Len(agents) = 3
    /\ Len(TheCall.results) = 2
    /\ TheCall.results[1].success
    /\ ~TheCall.results[2].success
    /\ Len(tasks) = 2

\* C4: execute_parallel returns one envelope per registered agent, the i-th being
\* the one the i-th registered agent produced, whatever the order of completion.
C4_ParallelAligned ==
    TheCall.pc = "done" =>
        /\ Len(TheCall.results) = Len(agents)
        /\ \A i \in 1..Len(agents) :
              /\ tasks[ParTasks[i]].agent = agents[i]
              /\ TheCall.results[i] = Envelope(ParTasks[i])
              /\ TheCall.results[i].metadata.agent_id = agents[i]
              /\ TheCall.results[i].agent_name = NameOf(agents[i])

C4_Witness ==
    /\ TheCall.pc = "done"
    /\ Len(agents) = 3
    /\ \E i, j \in 1..Len(agents) : i < j /\ EndMs(ParTasks[i]) > EndMs(ParTasks[j])

\* C5: under execute_parallel the envelope of an agent is decided by that agent's
\* own computation alone: no sibling's failure or timeout ends it or changes its
\* success, data or error.
OwnEnvelope(t) ==
    LET o == tasks[t].outcome
        r == Envelope(t)
    IN  /\ o.kind \in {"return", "raise", "raise_timeout", "timeout"}
        /\ r.agent_name = NameOf(tasks[t].agent)
        /\ r.success = (o.kind = "return")
        /\ r.data = IF o.kind = "return" THEN o.val ELSE None
        /\ r.error = IF o.kind = "return" THEN None
                     ELSE IF o.kind = "raise" THEN o.val
                     ELSE TimeoutMessage(tasks[t].agent)
        /\ o.kind = "timeout" => r.duration_ms >= TimeoutOf(tasks[t].agent) * MsPerSecond

C5_SiblingsIsolated ==
    /\ \A t \in TaskIds :
          /\ ~Ended(t) => tasks[t].outcome = Pending
          /\ tasks[t].st = "raised" => tasks[t].outcome.kind = "raise_base"
          /\ tasks[t].st = "returned" => OwnEnvelope(t)
    /\ TheCall.pc = "done" =>
          \A i \in 1..Len(ParTasks) : TheCall.results[i] = Envelope(ParTasks[i])

C5_Witness ==
    \E t, u, v \in TaskIds :
        /\ tasks[t].st = "returned" /\ tasks[t].outcome.kind = "raise"
        /\ tasks[v].st = "returned" /\ tasks[v].outcome.kind = "timeout"
        /\ tasks[u].st = "returned" /\ Envelope(u).success
        /\ EndMs(t) < EndMs(u)
        /\ TheCall.pc = "done"

\* C6: execute_map_reduce calls the reducer once when a map agent succeeded and
\* never when none did, and only after every map agent has produced its envelope.
MapPhaseOver ==
    /\ TheCall.pc \in {"reducing", "done", "raised"}
    /\ \A i \in 1..Len(ParTasks) : tasks[ParTasks[i]].st # "raised"

C6_ReducerOnce ==
    /\ Len(ReduceTasks) <= 1
    /\ Len(ReduceTasks) = 1 =>
          /\ Len(ParTasks) = Len(agents)
          /\ \A i \in 1..Len(ParTasks) : tasks[ParTasks[i]].st = "returned"
          /\ \E i \in 1..Len(ParTasks) : Envelope(ParTasks[i]).success
    /\ MapPhaseOver =>
          Len(ReduceTasks) =
              IF \E i \in 1..Len(ParTasks) : Envelope(ParTasks[i]).success THEN 1 ELSE 0

C6_Witness ==
    /\ TheCall.pc = "done"
    /\ Len(agents) = 3
    /\ Cardinality({i \in 1..Len(ParTasks) : Envelope(ParTasks[i]).success}) = 1
    /\ Len(ReduceTasks) = 1
    /\ Len(tasks[ReduceTasks[1]].input.results) = 1

\* C7: when no map agent succeeds, execute_map_reduce returns the failed envelope
\* "map_reduce" with error "All map agents failed", the sum of the map durations and
\* the names of the failed map agents in registration order.
RECURSIVE MapDurations(_)
MapDurations(n) ==
    IF n = 0 THEN 0 ELSE Envelope(ParTasks[n]).duration_ms + MapDurations(n - 1)

C7_AllMapFailed ==
    (/\ TheCall.pc = "done"
     /\ \A i \in 1..Len(ParTasks) : ~Envelope(ParTasks[i]).success) =>
        /\ Len(TheCall.ret) = 1
        /\ TheCall.ret[1].agent_name = "map_reduce"
        /\ TheCall.ret[1].success = FALSE
        /\ TheCall.ret[1].data = None
        /\ TheCall.ret[1].error = "All map agents failed"
        /\ TheCall.ret[1].duration_ms = MapDurations(Len(ParTasks))
        /\ TheCall.ret[1].metadata.failed_agents =
              [i \in 1..Len(agents) |-> NameOf(agents[i])]

C7_Witness ==
    /\ TheCall.pc = "done"
    /\ Len(agents) = 3
    /\ \A i \in 1..Len(ParTasks) : ~Envelope(ParTasks[i]).success
    /\ TheCall.ret[1].duration_ms = 2 * MsPerSecond
    /\ ReduceTasks = <<>>

\* C8: a chain run follows the successor links as they were when it started; a link
\* changed while the run is in progress is not observed by it.
C8_ChainFixedAtStart ==
    \A k \in 2..Len(ChainTasks) :
        tasks[ChainTasks[k]].agent = TheCall.links[tasks[ChainTasks[k - 1]].agent]

\* C9: with two orchestration calls in flight on one orchestrator, every agent
\* invocation of a call receives the keys of that call's own context.
C9_ContextPerCall ==
    \A t \in TaskIds :
        tasks[t].ctx_keys \ {"previous_results"} = {tasks[t].call}

\* C10: in execute_sequential the first agent receives initial_input and every later
\* agent receives the data of the envelope of the agent before it.
C10_OutputBecomesInput ==
    /\ Len(SeqTasks) >= 1 => tasks[SeqTasks[1]].input = TheCall.input
    /\ \A k \in 2..Len(SeqTasks) :
          /\ Envelope(SeqTasks[k - 1]).success
          /\ tasks[SeqTasks[k]].input = Envelope(SeqTasks[k - 1]).data

C10_Witness ==
    /\ Len(SeqTasks) = 3
    /\ tasks[SeqTasks[1]].input = InitialInput
    /\ tasks[SeqTasks[2]].input = DataOf(1)
    /\ tasks[SeqTasks[3]].input = DataOf(2)

\* the data of the envelopes of the first n invocations of the sequential run
PriorData(n) == [k \in 1..n |-> Envelope(SeqTasks[k]).data]

C12_OneAtATime ==
    /\ Cardinality({k \in 1..Len(SeqTasks) : ~Ended(SeqTasks[k])}) <= 1
    /\ \A k \in 1..Len(SeqTasks) :
          k > 1 => /\ tasks[SeqTasks[k - 1]].st = "returned"
                   /\ tasks[SeqTasks[k]].start * MsPerSecond >= EndMs(SeqTasks[k - 1])

C12_Witness ==
    /\ Len(SeqTasks) = 3
    /\ tasks[SeqTasks[2]].st = "returned"
    /\ tasks[SeqTasks[3]].st = "running"
    /\ tasks[SeqTasks[2]].start = 0
    /\ tasks[SeqTasks[3]].start = 1

\* C13: execute_parallel creates the execution of every registered agent at once
\* and lets each start without waiting for a sibling to finish; it returns only
\* after every one of them has produced its envelope; and once every core
\* computation finishes or reaches its timeout, the call eventually ends (it returns,
\* or passes on an exception outside Exception that a computation raised).
C13_StartsAll ==
    TheCall.pc # "idle" =>
        /\ Len(ParTasks) = Len(agents)
        /\ \A i \in 1..Len(ParTasks) :
              (/\ tasks[ParTasks[i]].st = "created"
               /\ \A j \in 1..(i - 1) : tasks[ParTasks[j]].st # "created")
                  => ENABLED TaskStart(ParTasks[i])

C13_ReturnsLast ==
    /\ TheCall.pc = "done" =>
          \A i \in 1..Len(ParTasks) : tasks[ParTasks[i]].st = "returned"
    /\ TheCall.pc = "raised" =>
          \E i \in 1..Len(ParTasks) : tasks[ParTasks[i]].outcome.kind = "raise_base"

C13_ParallelEnds ==
    /\ [](C13_StartsAll /\ C13_ReturnsLast)
    /\ (TheCall.pc = "gathering") ~> (TheCall.pc \in {"done", "raised"})

C13_Witness ==
    /\ Len(agents) = 3
    /\ TheCall.pc = "gathering"
    /\ \A i \in 1..Len(ParTasks) : tasks[ParTasks[i]].st = "running"

\* C14: under execute_parallel every agent receives the same input and its own copy
\* of the context: a key one agent writes with set_context is visible neither to
\* another agent (get_context) nor in the mapping the caller passed in.
C14_OwnContextCopy ==
    /\ \A i \in 1..Len(ParTasks) :
          /\ tasks[ParTasks[i]].input = TheCall.input
          /\ tasks[ParTasks[i]].ctx_keys =
                (IF TheCall.ctx = Null THEN {} ELSE {"c1"})
    /\ \A a, b \in AgentIds : a # b => ~GetContext(b, KeyOf(a))
    /\ \A a \in AgentIds :
          /\ KeyOf(a) \notin heap[octx].keys
          /\ TheCall.ctx # Null => KeyOf(a) \notin heap[TheCall.ctx].keys

C14_Witness ==
    /\ TheCall.pc = "done"
    /\ TheCall.ctx # Null
    /\ Len(agents) = 3
    /\ \A a \in {1, 2} : GetContext(a, KeyOf(a)) /\ GetContext(a, "c1")
    /\ ~GetContext(3, KeyOf(3))

\* the map invocations that produced a successful envelope, in registration order
SuccessfulMapTasks == SelectSeq(ParTasks, LAMBDA t : Envelope(t).success)

\* C15: the `results` list handed to the reducer holds the data values of exactly
\* the successful map envelopes, in the registration order of their agents; failed
\* envelopes contribute nothing.
C15_ReduceResults ==
    Len(ReduceTasks) = 1 =>
        LET in == tasks[ReduceTasks[1]].input
        IN  /\ Len(in.results) = Len(SuccessfulMapTasks)
            /\ \A i \in 1..Len(SuccessfulMapTasks) :
                  /\ in.results[i] = Envelope(SuccessfulMapTasks[i]).data
                  /\ in.results[i] = DataOf(tasks[SuccessfulMapTasks[i]].agent)
            /\ \A i, j \in 1..Len(SuccessfulMapTasks) :
                  i < j => tasks[SuccessfulMapTasks[i]].agent < tasks[SuccessfulMapTasks[j]].agent

C15_Witness ==
    /\ Len(ReduceTasks) = 1
    /\ Len(agents) = 3
    /\ ~Envelope(ParTasks[1]).success
    /\ EndMs(ParTasks[3]) < EndMs(ParTasks[2])
    /\ tasks[ReduceTasks[1]].input.results = <<DataOf(2), DataOf(3)>>

\* C16: the `metadata` mapping handed to the reducer gives, for every successful map
\* agent, that agent's own envelope metadata under its name, also when several
\* successful agents share a name; it has no entry for a failed agent.
C16_MetadataOfEverySuccess ==
    Len(ReduceTasks) = 1 =>
        LET md == tasks[ReduceTasks[1]].input.metadata
        IN  /\ DOMAIN md = {Envelope(SuccessfulMapTasks[i]).agent_name :
                               i \in 1..Len(SuccessfulMapTasks)}
            /\ \A i \in 1..Len(SuccessfulMapTasks) :
                  md[Envelope(SuccessfulMapTasks[i]).agent_name] =
                      Envelope(SuccessfulMapTasks[i]).metadata

\* C17: when a map agent succeeded, what execute_map_reduce returns is the reducer's
\* own envelope (named after the reducer); a reducer that fails or times out gives a
\* failed envelope as the result of the call, not an exception.
C17_ReducerEnvelopeReturned ==
    Len(ReduceTasks) = 1 =>
        LET t == ReduceTasks[1]
        IN  /\ tasks[t].agent = Reducer
            /\ TheCall.pc = "done" =>
                  /\ tasks[t].st = "returned"
                  /\ TheCall.ret = <<Envelope(t)>>
                  /\ Envelope(t).agent_name = NameOf(Reducer)
                  /\ Envelope(t).success = (tasks[t].outcome.kind = "return")
            /\ tasks[t].outcome.kind \in {"return", "raise", "raise_timeout", "timeout"} =>
                  /\ tasks[t].st = "returned"
                  /\ TheCall.pc = "done"
            /\ TheCall.pc = "raised" =>
                  \E u \in TaskIds : tasks[u].outcome.kind = "raise_base"

C17_Witness ==
    /\ Len(ReduceTasks) = 1
    /\ TheCall.pc = "done"
    /\ tasks[ReduceTasks[1]].outcome.kind = "timeout"
    /\ ~TheCall.ret[1].success
    /\ TheCall.ret[1].agent_name = "reducer"

\* C18: execute_chain executes the head and then, as long as the envelope just
\* appended is successful and the current agent has a successor, that successor on
\* the envelope's data; it stops at the first failed envelope or at an agent with no
\* successor. The returned list is never empty and only its last envelope can be a
\* failure.
C18_ChainWalk ==
    /\ TheCall.pc # "idle" =>
          /\ Len(ChainTasks) >= 1
          /\ tasks[ChainTasks[1]].input = TheCall.input
    /\ \A k \in 1..Len(ChainTasks) :
          k > 1 => /\ tasks[ChainTasks[k - 1]].st = "returned"
                   /\ Envelope(ChainTasks[k - 1]).success
                   /\ tasks[ChainTasks[k]].agent = next_agent[tasks[ChainTasks[k - 1]].agent]
                   /\ tasks[ChainTasks[k]].input = Envelope(ChainTasks[k - 1]).data
    /\ TheCall.pc = "done" =>
          LET n == Len(TheCall.results)
          IN  /\ n >= 1
              /\ n = Len(ChainTasks)
              /\ \A k \in 1..n : TheCall.results[k] = Envelope(ChainTasks[k])
              /\ \A k \in 1..(n - 1) : TheCall.results[k].success
              /\ \/ ~TheCall.results[n].success
                 \/ next_agent[tasks[ChainTasks[n]].agent] = NoAgent

C18_Witness ==
    /\ TheCall.pc = "done"
    /\ Len(TheCall.results) = 2
    /\ TheCall.results[1].success
    /\ ~TheCall.results[2].success
    /\ next_agent[tasks[ChainTasks[2]].agent] # NoAgent

\* the invocations of the chain run (c1) and of the sequential run (c2) of SpecEquiv
EqChain == TasksOf(Store, "c1", "chain")
EqSeq   == TasksOf(Store, "c2", "seq")
EqMin   == IF Len(EqChain) < Len(EqSeq) THEN Len(EqChain) ELSE Len(EqSeq)

\* both runs are over and the computations behaved alike in both, position by position
SamePattern ==
    /\ calls["c1"].pc \in {"done", "raised"}
    /\ calls["c2"].pc \in {"done", "raised"}
    /\ \A k \in 1..EqMin : tasks[EqChain[k]].outcome = tasks[EqSeq[k]].outcome

\* C19: for agents A1..An that do not read the context, execute_chain on the chain
\* A1 -> ... -> An and execute_sequential on an orchestrator holding A1..An give,
\* for the same initial input and the same behaviour of the computations, the same
\* sequence of envelopes as to agent_name, success, data and error.
C19_ChainEquivSequential ==
    SamePattern =>
        /\ calls["c1"].pc = calls["c2"].pc
        /\ Len(EqChain) = Len(EqSeq)
        /\ \A k \in 1..EqMin :
              /\ tasks[EqChain[k]].agent = tasks[EqSeq[k]].agent
              /\ tasks[EqChain[k]].input = tasks[EqSeq[k]].input
        /\ calls["c1"].pc = "done" =>
              /\ Len(calls["c1"].results) = Len(calls["c2"].results)
              /\ \A k \in 1..Len(calls["c1"].results) :
                    LET r == calls["c1"].results[k]
                        s == calls["c2"].results[k]
                    IN  /\ r.agent_name = s.agent_name
                        /\ r.success = s.success
                        /\ r.data = s.data
                        /\ r.error = s.error

C19_Witness ==
    /\ SamePattern
    /\ Len(agents) = 3
    /\ calls["c1"].pc = "done"
    /\ Len(calls["c2"].results) = 2
    /\ ~calls["c2"].results[2].success
    /\ calls["c1"].results[1].data = DataOf(1)

\* the agent n links after a (NoAgent once the links end)
RECURSIVE Walk(_, _)
Walk(a, n) == IF a = NoAgent \/ n = 0 THEN a ELSE Walk(next_agent[a], n - 1)

\* b is a, or is reached from a by following the links
Reaches(a, b) == \E n \in 0..MaxAgents : Walk(a, n) = b

\* C20 (as stated): after any sequence of then() calls, the links followed from any
\* head end: they form a singly-linked sequence without a cycle.
C20_NoCycle ==
    \A head \in AgentIds : Walk(head, MaxAgents) = NoAgent

\* C20 (amended): then() checks nothing: a.then(b) on links without a cycle leaves
\* them without a cycle exactly when a is not reached from b (b = a included);
\* every agent keeps at most one successor.
C20_CycleOnlyByLinkingBack ==
    [][ /\ next_agent' \in [AgentIds -> AgentIds \cup {NoAgent}]
        /\ \A a, b \in AgentIds :
              (Then(a, b) /\ C20_NoCycle) => (C20_NoCycle' <=> ~Reaches(b, a)) ]_vars

C20_Witness ==
    /\ next_agent[1] = 2
    /\ next_agent[2] = 3
    /\ next_agent[3] = NoAgent
    /\ C20_NoCycle

\* C21 (as stated): whatever the agents do (succeed, raise, time out), none of
\* execute_sequential, execute_parallel, execute_map_reduce, execute_chain raises.
C21_StrategiesNeverRaise ==
    \A c \in CallIds : calls[c].pc # "raised"

\* C21 (amended): a strategy raises only when a core computation raised an exception
\* outside Exception (which execute does not catch); when every computation returns,
\* raises an Exception or times out, the call ends by returning its result
\* structure: a list of envelopes, or one envelope for execute_map_reduce.
C21_StrategiesRaiseOnlyBaseException ==
    \A c \in CallIds :
        /\ calls[c].pc = "raised" =>
              \E t \in TaskIds : tasks[t].call = c /\ tasks[t].outcome.kind = "raise_base"
        /\ (\A t \in TaskIds : tasks[t].call = c =>
               tasks[t].outcome.kind \in {"return", "raise", "timeout"}) =>
              /\ calls[c].pc # "raised"
              /\ \A t \in TaskIds : tasks[t].call = c => Len(tasks[t].env) = 1
        /\ calls[c].pc = "done" =>
              /\ calls[c].kind = "mr" => Len(calls[c].ret) = 1
              /\ calls[c].kind # "mr" => calls[c].ret = <<>>
              /\ \A k \in 1..Len(calls[c].results) :
                    calls[c].results[k].success \in BOOLEAN

C21_Witness ==
    /\ TheCall.pc = "done"
    /\ TheCall.kind = "mr"
    /\ \E t \in TaskIds : tasks[t].role = "par" /\ tasks[t].outcome.kind = "raise"
    /\ \E t \in TaskIds : tasks[t].role = "par" /\ tasks[t].outcome.kind = "timeout"
    /\ \E t \in TaskIds : tasks[t].role = "reduce" /\ tasks[t].outcome.kind = "raise"
    /\ ~TheCall.ret[1].success

\* the text an envelope carries for a timeout of s seconds
TimedOutAfter(s) ==
    IF s = 1 THEN "Agent execution timed out after 1s"
    ELSE IF s = 2 THEN "Agent execution timed out after 2s"
    ELSE "Agent execution timed out after " \o ToString(s) \o "s"

C23_ErrorIsMessage ==
    \A t \in TaskIds :
        tasks[t].outcome.kind = "raise" =>
            /\ tasks[t].st = "returned"
            /\ ~Envelope(t).success
            /\ Envelope(t).data = None
            /\ Envelope(t).error = tasks[t].outcome.val

C23_Witness ==
    \E t, u \in TaskIds :
        /\ tasks[t].outcome = [kind |-> "raise", val |-> "boom"]
        /\ Envelope(t).error = "boom"
        /\ tasks[u].outcome = [kind |-> "raise", val |-> ""]
        /\ Envelope(u).error = ""

\* the entry stored for an id (only used where the id is in the store)
Entry(id) == research_storage[id][1]
Stored(id) == research_storage[id] # <<>>

\* the stage names of the status vocabulary, by phase
ClaimedStages ==
    <<"analyzing", "searching", "extracting", "synthesizing", "formatting", "validating">>

\* C24: a workflow run that does not fail goes through the statuses queued,
\* analyzing, searching, extracting, synthesizing, formatting, validating (when
\* validation is enabled), completed, in this order and through no other status:
\* the entry is queued until the run starts, carries the stage name of the phase
\* in progress, and is completed when the run has returned success.
C24_StatusesInOrder ==
    \A id \in ResearchIds :
        Stored(id) =>
            LET run == workflows[id]
            IN  /\ run.pc = "streaming" => Entry(id).status = "queued"
                /\ run.pc = "running" =>
                      Entry(id).status = ClaimedStages[Len(run.results) + 1]
                /\ (run.pc = "returned" /\ run.ret[1].success) =>
                      Entry(id).status = "completed"
                /\ Len(run.results) = 6 => run.enable_validation

\* C25: in a workflow run that ends completed, the progress stored for its id is
\* always an integer in 0..100, no update lowers it (the first update is not below
\* the 0 of the initial entry), and it is 100 at the end. The only write that can
\* lower the progress is the one of status failed, which is final.
C25_ProgressRange ==
    \A id \in ResearchIds :
        Stored(id) =>
            /\ Entry(id).progress \in 0..100
            /\ Entry(id).status = "completed" => Entry(id).progress = 100
            /\ (workflows[id].pc = "returned" /\ workflows[id].ret[1].success) =>
                  Entry(id).status = "completed"

C25_ProgressStep ==
    \A id \in ResearchIds :
        /\ (~Stored(id) /\ research_storage'[id] # <<>>) =>
              research_storage'[id][1].progress >= InitialEntry(id).progress
        /\ (Stored(id) /\ research_storage'[id][1].status # "failed") =>
              /\ research_storage'[id][1].progress >= Entry(id).progress
              /\ Entry(id).status # "failed"

C25_ProgressMonotone ==
    []C25_ProgressRange /\ [][C25_ProgressStep]_vars

C25_Witness ==
    \E id \in ResearchIds :
        /\ Stored(id)
        /\ Entry(id).status = "completed"
        /\ Entry(id).progress = 100
        /\ Len(workflows[id].results) = 6
        /\ workflows[id].ret[1].success

\* C26: update_research_status on an id that is not in the store does nothing: it
\* creates no entry for the id and changes no existing entry (and no exception or
\* response comes of it).
C26_UnknownIdStep ==
    \A id \in ResearchIds : \A s \in StatusValues : \A p \in ProgressValues :
        \A m \in MessageValues :
            (CallUpdate(id, s, p, m) /\ ~Stored(id)) =>
                /\ research_storage'[id] = <<>>
                /\ research_storage' = research_storage
                /\ response' = response

C26_UpdateUnknownIsNoOp ==
    [][C26_UnknownIdStep]_vars

C26_Witness ==
    /\ ~Stored("r2")
    /\ Stored("r1")
    /\ Entry("r1").status = "failed"
    /\ Entry("r1").message = <<"oops">>
    /\ ENABLED CallUpdate("r2", "failed", 0, "oops")

\* C27: for an id in the store, update_research_status(id, s, p, m) makes a
\* following get_research_status(id) return status s, progress p and message m; it
\* changes the status, progress, message and updated_at of that entry and nothing
\* else: not its id, created_at or other fields, and no entry of another id.
C27_UpdateStep ==
    \A id \in ResearchIds : \A s \in StatusValues : \A p \in ProgressValues :
        \A m \in MessageValues :
            (CallUpdate(id, s, p, m) /\ Stored(id)) =>
                /\ research_storage'[id] # <<>>
                /\ ResearchStatus(research_storage'[id][1]).status = s
                /\ ResearchStatus(research_storage'[id][1]).progress = p
                /\ ResearchStatus(research_storage'[id][1]).message = m
                /\ research_storage'[id][1].id = Entry(id).id
                /\ research_storage'[id][1].created_at = Entry(id).created_at
                /\ research_storage'[id][1].query = Entry(id).query
                /\ research_storage'[id][1].user_id = Entry(id).user_id
                /\ \A other \in ResearchIds \ {id} :
                      research_storage'[other] = research_storage[other]

\* a read returns what the entry holds at that moment
C27_GetStep ==
    \A id \in ResearchIds :
        (GetStatus(id) /\ Stored(id)) =>
            /\ response' = <<[id |-> id, raised |-> None, body |-> <<ResearchStatus(Entry(id))>>]>>
            /\ research_storage' = research_storage

C27_UpdateThenGet ==
    [][C27_UpdateStep /\ C27_GetStep]_vars

C27_Witness ==
    /\ Stored("r1") /\ Stored("r2")
    /\ Entry("r2").status = "processing"
    /\ Entry("r1").message = <<"oops">>
    /\ response # <<>>
    /\ response[1].id = "r1"
    /\ response[1].body # <<>>
    /\ response[1].body[1].status = "searching"
    /\ response[1].body[1].progress = 25
    /\ response[1].body[1].message = "oops"
    /\ response[1].body[1].created_at < response[1].body[1].updated_at

\* C28: get_research_status on an id that is not in the store reports the
\* resource-not-found error (ResourceNotFoundError, which the API maps to HTTP 404)
\* and leaves the store as it is.
C28_UnknownIdNotFound ==
    response # <<>> =>
        (response[1].body = <<>> => response[1].raised = "ResourceNotFoundError")

\* what one single write of the workflow for id leaves in (status, progress, message)
WrittenAtOnce(id, b) ==
    \/ b.status = "processing" /\ b.progress = 0 /\ b.message = ""
    \/ \E k \in Phases :
          b.status = StageStatus[k] /\ b.progress = StageProgress[k] /\ b.message = StageMessage[k]
    \/ b.status = "completed" /\ b.progress = 100 /\ b.message = "Research completed"
    \/ /\ b.status = "failed" /\ b.progress = 0
       /\ \E t \in TaskIds :
             /\ tasks[t].call = id /\ tasks[t].st = "returned" /\ ~Envelope(t).success
             /\ PhaseOf(tasks[t].agent) <= 5
             /\ b.message = FailurePrefix[PhaseOf(tasks[t].agent)] \o Envelope(t).error

\* C29: whenever a status reader runs while the workflow of the same id is under
\* way, the status, progress and message it gets were written together by one
\* update (or are those of the initial entry): never parts of two updates.
C29_ConsistentSnapshot ==
    (response # <<>> /\ response[1].body # <<>>) =>
        /\ WrittenAtOnce(response[1].id, response[1].body[1])
        /\ response[1].body[1].id = response[1].id
        /\ response[1].body[1].created_at <= response[1].body[1].updated_at

C29_Witness ==
    /\ response # <<>>
    /\ response[1].body # <<>>
    /\ workflows[response[1].id].pc = "running"
    /\ Len(workflows[response[1].id].results) = 3
    /\ response[1].body[1].status = "analyzing"
    /\ response[1].body[1].progress = 60
    /\ response[1].body[1].message = "Generating insights..."

\* C30: every update of an existing entry sets updated_at to the time of the
\* update; the updated_at of an entry never goes backwards, and it is never earlier
\* than the entry's created_at.
C30_UpdatedAtStep ==
    \A id \in ResearchIds :
        Stored(id) =>
            /\ research_storage'[id] # <<>>
            /\ research_storage'[id][1].updated_at >= Entry(id).updated_at
            /\ \A s \in StatusValues : \A p \in ProgressValues : \A m \in MessageValues :
                  CallUpdate(id, s, p, m) => research_storage'[id][1].updated_at = now

C30_UpdatedAtRefreshed ==
    /\ [](\A id \in ResearchIds :
            Stored(id) => /\ Entry(id).created_at <= Entry(id).updated_at
                          /\ Entry(id).updated_at <= now)
    /\ [][C30_UpdatedAtStep]_vars

C30_Witness ==
    \E id \in ResearchIds :
        /\ Stored(id)
        /\ Entry(id).created_at = 0
        /\ Entry(id).updated_at = MaxTime
        /\ Entry(id).message # <<>>

\* ---------------------------------------------------------------- C31
AttemptedOnce(t) ==
    /\ tasks[t].attempts = (IF tasks[t].st = "created" THEN 0 ELSE 1)
    /\ Len(tasks[t].env) <= 1
    /\ tasks[t].st = "returned" <=> Len(tasks[t].env) = 1
    /\ tasks[t].outcome \in Raises \cup {Elapsed, RaiseTimeoutError}
          => tasks[t].st = "returned" /\ ~Envelope(t).success

EnvelopeKept ==
    \A t \in TaskIds :
        tasks[t].env # <<>> =>
            /\ t <= Len(tasks')
            /\ tasks'[t].env = tasks[t].env
            /\ tasks'[t].attempts = tasks[t].attempts

FirstAttemptRaised(t) == tasks[t].outcome \in Raises

InvokedPhases(id) ==
    {PhaseOf(tasks[t].agent) : t \in {u \in TaskIds : tasks[u].call = id /\ tasks[u].role = "wf"}}

\* the text of the ResearchError raised for the failed envelope of phase k
AbortText(id, k) == FailurePrefix[k] \o workflows[id].results[k].error

\* C33: when the envelope of one of the first five phases of a run is failed, no
\* agent of a later phase is ever invoked for that run, the tracker entry has
\* status failed, progress 0 and the error text as message, and execute_research
\* has returned (not raised) a result with success = false carrying that text.
C33_AbortOnFailure ==
    \A id \in ResearchIds : \A k \in 1..5 :
        (k <= Len(workflows[id].results) /\ ~workflows[id].results[k].success) =>
            /\ Len(workflows[id].results) = k
            /\ InvokedPhases(id) = 1..k
            /\ workflows[id].pc = "returned"
            /\ workflows[id].ret = <<[success |-> FALSE, report |-> "",
                                      error |-> AbortText(id, k), validation |-> None]>>
            /\ Entry(id).status = "failed"
            /\ Entry(id).progress = 0
            /\ Entry(id).message = <<AbortText(id, k)>>

\* a run aborted by the failed envelope of its third phase, content extraction
C33_Witness ==
    \E id \in ResearchIds :
        /\ Len(workflows[id].results) = 3
        /\ workflows[id].results[3].error = "boom"
        /\ Entry(id).message = <<"Content extraction failed: boom">>
        /\ ~workflows[id].ret[1].success

\* ---------------------------------------------------------------- C34
TerminalStatuses == {"completed", "failed"}

C34_TerminalState ==
    \A id \in ResearchIds :
        /\ workflows[id].pc \in {"streaming", "running"} =>
              Entry(id).status \notin TerminalStatuses
        /\ workflows[id].pc = "returned" =>
              /\ Entry(id).status \in TerminalStatuses
              /\ workflows[id].ret[1].success <=> Entry(id).status = "completed"

C34_TerminalStep ==
    \A id \in ResearchIds :
        (Stored(id) /\ Entry(id).status \in TerminalStatuses) =>
            /\ research_storage'[id] = research_storage[id]
            /\ workflows'[id] = workflows[id]

\* C34: a run of execute_research whose awaited executions all return comes to an
\* end with the entry in a terminal status (a run ends otherwise only by an
\* exception that execute let through); until the run has returned the status is
\* not terminal, when it has returned the status is completed or failed and the
\* success flag of the result is true exactly for completed; and after a terminal
\* status was written the entry is not updated again and the run does nothing more.
C34_EndsInOneTerminalStatus ==
    /\ []C34_TerminalState
    /\ [][C34_TerminalStep]_vars
    /\ \A id \in ResearchIds :
          (workflows[id].pc = "running") ~> (workflows[id].pc \in {"returned", "raised"})

\* a run that failed in its second phase has returned: status failed, flag false
C34_Witness ==
    \E id \in ResearchIds :
        /\ workflows[id].pc = "returned"
        /\ Len(workflows[id].results) = 2
        /\ Entry(id).status = "failed"
        /\ workflows[id].ret[1].success = FALSE

\* ---------------------------------------------------------------- C35
\* the head of the chain run, and the number of agents linked from a (a included)
ChainHead == tasks[ChainTasks[1]].agent
AcyclicFrom(a) == Walk(a, MaxAgents) = NoAgent
LinksFrom(a) == CHOOSE k \in 0..MaxAgents :
                    Walk(a, k) = NoAgent /\ \A j \in 0..(k - 1) : Walk(a, j) # NoAgent

C35_ForwardOnly ==
    (TheCall.pc # "idle" /\ AcyclicFrom(ChainHead)) =>
        /\ Len(ChainTasks) \in 1..LinksFrom(ChainHead)
        /\ \A i \in 1..Len(ChainTasks) : tasks[ChainTasks[i]].agent = Walk(ChainHead, i - 1)
        /\ \A i, j \in 1..Len(ChainTasks) :
              i # j => tasks[ChainTasks[i]].agent # tasks[ChainTasks[j]].agent
        /\ TheCall.pc = "done" => Len(TheCall.results) \in 1..LinksFrom(ChainHead)

\* C35: a chain run on k agents linked without a cycle executes each link at most
\* once, in the order of the successor links, returns between 1 and k envelopes,
\* and comes to an end once every execution it awaits has ended (with the list, or
\* with the exception that an execution let through). A run that does not end
\* although its executions do is therefore a run on links with a cycle.
C35_AcyclicChainTerminates ==
    /\ []C35_ForwardOnly
    /\ (TheCall.pc = "running" /\ AcyclicFrom(ChainHead))
          ~> (TheCall.pc \in {"done", "raised"})

\* a finished run over all the links of a chain of MaxAgents agents
C35_Witness ==
    /\ TheCall.pc = "done"
    /\ AcyclicFrom(ChainHead)
    /\ LinksFrom(ChainHead) = MaxAgents
    /\ Len(TheCall.results) = MaxAgents
    /\ TheCall.results[MaxAgents].success

\* ---------------------------------------------------------------- C36
\* C36: the context_keys in the metadata of an envelope are the keys of the context
\* that was passed to the execute call that built it (the computations of this
\* specification set no key), also when another execute call on the same agent
\* instance, with another context, is in progress at the same time.
C36_OwnContextKeys ==
    \A t \in TaskIds :
        tasks[t].st = "returned" =>
            Envelope(t).metadata.context_keys = tasks[t].ctx_keys

\* ---------------------------------------------------------------- C37
\* C37: when validation is enabled and the envelope of the validation agent is
\* failed, the run still ends completed: the entry has status completed and
\* progress 100, and the result has success = true, the report of the formatting
\* phase as it was (not validated) and empty validation data.
C37_ValidationFailureIgnored ==
    \A id \in ResearchIds :
        (Len(workflows[id].results) = 6 /\ ~workflows[id].results[6].success) =>
            /\ workflows[id].enable_validation
            /\ workflows[id].pc = "returned"
            /\ Entry(id).status = "completed"
            /\ Entry(id).progress = 100
            /\ workflows[id].ret =
                  <<[success |-> TRUE, report |-> workflows[id].results[5].data,
                     error |-> None, validation |-> "{}"]>>

\* a run whose validation agent raised "boom" after five successful phases
C37_Witness ==
    \E id \in ResearchIds :
        /\ Len(workflows[id].results) = 6
        /\ workflows[id].results[6].error = "boom"
        /\ workflows[id].results[5].success
        /\ workflows[id].ret[1].success
        /\ Entry(id).status = "completed"

\* ---------------------------------------------------------------- C38
\* a map-reduce call made while no agent was registered: it has no map invocation
CalledWithoutAgents ==
    TheCall.kind = "mr" /\ TheCall.pc # "idle" /\ ParTasks = <<>>

\* C38: execute_map_reduce on an orchestrator without registered agents returns,
\* without suspending, the failed envelope named "map_reduce" with no data, error
\* "All map agents failed", duration_ms 0 and an empty failed_agents list; the
\* reducer is never invoked for that call, also not later.
C38_NoAgentsMapReduce ==
    CalledWithoutAgents =>
        /\ TheCall.pc = "done"
        /\ TheCall.results = <<>>
        /\ Len(TheCall.ret) = 1
        /\ TheCall.ret[1].agent_name = "map_reduce"
        /\ TheCall.ret[1].success = FALSE
        /\ TheCall.ret[1].data = None
        /\ TheCall.ret[1].error = "All map agents failed"
        /\ TheCall.ret[1].duration_ms = 0
        /\ TheCall.ret[1].metadata = [failed_agents |-> <<>>]
        /\ ReduceTasks = <<>>
        /\ tasks = <<>>

\* the call was made on the empty orchestrator and time has passed since
C38_Witness ==
    /\ CalledWithoutAgents
    /\ agents = <<>>
    /\ TheCall.pc = "done"
    /\ TheCall.ret[1].metadata.failed_agents = <<>>
    /\ now = MaxTime

\* ---------------------------------------------------------------- C39
Received(i) == client.received[i]
LastReceived == client.received[Len(client.received)]

\* every attempt the client could make was answered 429 with a usable Retry-After
AllRateLimited ==
    /\ client.max_retries >= 1
    /\ Len(client.received) = client.max_retries
    /\ \A i \in 1..Len(client.received) :
          Received(i).status = 429 /\ IntOfRetryAfter(Received(i).retry_after) # <<>>

\* C39: when every attempt of a request is answered with HTTP 429, _make_request
\* has slept for the Retry-After of each answer but the last, and after the last of
\* its max_retries attempts it raises RateLimitError to its caller.
C39_RateLimitErrorRaised ==
    AllRateLimited =>
        /\ client.pc = "raised"
        /\ client.raised[1].type = "RateLimitError"
        /\ client.sleeps = [i \in 1..(client.max_retries - 1) |->
                               IntOfRetryAfter(Received(i).retry_after)[1]]

\* ---------------------------------------------------------------- C40
Successful(resp) == resp.kind = "response" /\ resp.status = 200 /\ JsonOf(resp.body) # <<>>
Retried(resp) ==
    \/ resp.kind = "exception"
    \/ resp.status = 429
    \/ resp.status >= 500
    \/ resp.status = 200 /\ JsonOf(resp.body) = <<>>

C40_Outcome ==
    LET n == Len(client.received)
    IN  /\ n <= client.max_retries
        /\ \A i \in 1..(n - 1) : Retried(Received(i))
        /\ client.pc \in {"none", "idle"} => n = 0
        /\ client.pc = "requesting" =>
              /\ n < client.max_retries
              /\ client.attempt = n
              /\ n >= 1 => Retried(LastReceived)
        /\ client.pc = "returned" =>
              /\ n >= 1
              /\ Successful(LastReceived)
              /\ client.ret = JsonOf(LastReceived.body)
        /\ client.pc = "raised" =>
              /\ Len(client.raised) = 1
              /\ n = 0 => client.max_retries = 0 /\ client.raised[1].type = "NSAIError"
              /\ n >= 1 =>
                    /\ ~Successful(LastReceived)
                    /\ LastReceived.status \in {401, 403} =>
                          client.raised[1].type = "AuthenticationError"
                    /\ LastReceived.status = 404 =>
                          client.raised[1] = [type |-> "NSAIError",
                                              text |-> "API error: " \o LastReceived.body]
                    /\ Retried(LastReceived) =>
                          n = client.max_retries /\ client.raised[1].type \in {"NSAIError"}
        /\ n >= 1 /\ ~Retried(LastReceived) => client.pc \in {"returned", "raised"}

C40_Final ==
    client.pc \in {"returned", "raised"} => client' = client

\* C40: whatever the server answers and the transport does, _make_request sends at
\* most max_retries requests and comes to an end: it returns the decoded body of
\* the first successful response; on 401 or 403 it raises AuthenticationError and
\* on any other 4xx but 429 NSAIError, in both cases at once, with no further
\* request; in every other case it raises after its last attempt. (A 200 whose
\* body is not JSON counts as an error of the attempt, like a transport error.)
C40_BoundedRequests ==
    /\ []C40_Outcome
    /\ [][C40_Final]_vars
    /\ (client.pc = "requesting") ~> (client.pc \in {"returned", "raised"})

\* the third request succeeded after a server error and a transport error
C40_Witness ==
    /\ client.pc = "returned"
    /\ client.max_retries = 3
    /\ Len(client.received) = 3
    /\ Received(1).status = 500
    /\ Received(2) = TransportError
    /\ client.sleeps = <<1, 2>>
    /\ client.ret # <<>>

====
